---- MODULE Spec2Model ----
(***************************************************************************)
(* Semantic-analysis core of the Sway compiler: the declaration engine     *)
(* (slab + signature cache), the type engine it resolves type parameters   *)
(* through, the namespace's implemented-traits table, and the              *)
(* monomorphizer that ties the three together.                             *)
(***************************************************************************)
EXTENDS Integers, Sequences, FiniteSets, TLC

VARIABLES
    slab,      \* DeclarationEngine.slab: sequence of DeclarationWrapper, DeclarationId = index
    decls,     \* DeclarationEngine.decls: HashMap<DeclarationSignature, DeclarationId>
    types,     \* TypeEngine slab: sequence of TypeInfo, TypeId = index
    modules,   \* namespace Root: module path -> implemented-traits entries
    ret,       \* the last call and what it returned (value, warnings, errors)
    insts,     \* the last two declarations the monomorphizer produced
    threads,   \* per thread: where its insert_enum call stands and its locals
    implemented_traits, \* the impl blocks registered in the namespace for the receiver type, in order
    symbols,   \* the symbol tables of the modules: entries (module, name, declaration)
    scope,     \* the variables of the block being checked: name -> TypedVariableDeclaration
    typed_nodes, \* the typed nodes the checker has produced for the block, in order
    service,   \* the state of the language server's LspService
    functions, \* FunctionEngine.slab: sequence of TypedDeclaration, FunctionId = index
    panicked   \* whether a call has panicked, which ends the process

vars == <<slab, decls, types, modules, ret, insts, threads, implemented_traits, symbols, scope, typed_nodes, service, functions, panicked>>

(***************************************************************************)
(* Bounds                                                                  *)
(***************************************************************************)
MaxSlab == 2          \* declarations stored in the declaration engine
MaxDecls == 2         \* signatures filed in the declaration engine's cache
MaxTypes == 13        \* descriptors interned in the type engine
MaxVariants == 3      \* variants of an enum declaration
MaxNodes == 3         \* nodes of a block
MaxFunctions == 4     \* declarations stored in the function engine

(***************************************************************************)
(* Spans                                                                   *)
(***************************************************************************)
Span(path, lo, hi) == [path |-> path, lo |-> lo, hi |-> hi]

NoSpan == Span("", 0, 0)

Min2(a, b) == IF a <= b THEN a ELSE b

Max2(a, b) == IF a >= b THEN a ELSE b

SpanJoin(a, b) == Span(a.path, Min2(a.lo, b.lo), Max2(a.hi, b.hi))

(***************************************************************************)
(* TypeInfo: the descriptor a TypeId points to                             *)
(***************************************************************************)
TI(tag, name, to, members, tps) ==
    [tag |-> tag, name |-> name, to |-> to, members |-> members, tps |-> tps]

TyU64 == TI("U64", "", 0, <<>>, <<>>)

TyBool == TI("Bool", "", 0, <<>>, <<>>)

TyErrorRecovery == TI("ErrorRecovery", "", 0, <<>>, <<>>)

TyUnknownGeneric(name) == TI("UnknownGeneric", name, 0, <<>>, <<>>)

TyCustom(name) == TI("Custom", name, 0, <<>>, <<>>)

TySelfType == TI("SelfType", "", 0, <<>>, <<>>)

TyRef(id) == TI("Ref", "", id, <<>>, <<>>)

TyEnum(name, variants, tps) == TI("Enum", name, 0, variants, tps)

TyStruct(name, fields, tps) == TI("Struct", name, 0, fields, tps)

TypeParameter(type_id, name_ident) ==
    [type_id |-> type_id, name_ident |-> name_ident, trait_constraints |-> <<>>]

\* an enum variant or a struct field (a field has tag 0)
Member(name, type, tag) == [name |-> name, type |-> type, tag |-> tag]

(***************************************************************************)
(* Type engine                                                             *)
(***************************************************************************)
TypeIds(te) == 0 .. (Len(te) - 1)

look_up_type_id_raw(te, id) == te[id + 1]

RECURSIVE look_up_type_id(_, _)
look_up_type_id(te, id) ==
    LET t == te[id + 1]
    IN  IF t.tag = "Ref" THEN look_up_type_id(te, t.to) ELSE t

RECURSIVE TypeInfoEq(_, _, _)
\* PartialEq for TypeParameter: the resolved type, the name and the constraints
TypeParameterEq(te, x, y) ==
    /\ TypeInfoEq(te, look_up_type_id(te, x.type_id), look_up_type_id(te, y.type_id))
    /\ x.name_ident = y.name_ident
    /\ x.trait_constraints = y.trait_constraints

\* PartialEq for TypedEnumVariant / TypedStructField: name, resolved type, tag
MemberEq(te, x, y) ==
    /\ x.name = y.name
    /\ TypeInfoEq(te, look_up_type_id(te, x.type), look_up_type_id(te, y.type))
    /\ x.tag = y.tag

TypeParametersEq(te, xs, ys) ==
    /\ Len(xs) = Len(ys)
    /\ \A i \in 1 .. Len(xs) : TypeParameterEq(te, xs[i], ys[i])

MembersEq(te, xs, ys) ==
    /\ Len(xs) = Len(ys)
    /\ \A i \in 1 .. Len(xs) : MemberEq(te, xs[i], ys[i])

\* structural equality of two descriptors, ignoring spans
TypeInfoEq(te, a, b) ==
    /\ a.tag = b.tag
    /\ CASE a.tag \in {"UnknownGeneric", "Custom"} -> a.name = b.name
         [] a.tag = "Ref" ->
                TypeInfoEq(te, look_up_type_id(te, a.to), look_up_type_id(te, b.to))
         [] a.tag \in {"Enum", "Struct"} ->
                /\ a.name = b.name
                /\ MembersEq(te, a.members, b.members)
                /\ TypeParametersEq(te, a.tps, b.tps)
         [] OTHER -> TRUE

\* a hash of a TypeParameter that feeds the TypeId itself to the hasher
TypeParameterHash_by_id(te, x) ==
    [ty |-> x.type_id, name |-> x.name_ident, tag |-> 0, constraints |-> x.trait_constraints]

RECURSIVE TypeInfoHash(_, _)
\* Hash for TypeParameter: the resolved type, the name and the constraints
TypeParameterHash(te, x) ==
    [ty |-> TypeInfoHash(te, look_up_type_id(te, x.type_id)),
     name |-> x.name_ident,
     tag |-> 0,
     constraints |-> x.trait_constraints]

\* Hash for TypedEnumVariant / TypedStructField
MemberHash(te, x) ==
    [ty |-> TypeInfoHash(te, look_up_type_id(te, x.type)),
     name |-> x.name,
     tag |-> x.tag,
     constraints |-> <<>>]

\* the hash of a descriptor, as the sequence of components fed to the hasher
TypeInfoHash(te, a) ==
    IF a.tag = "Ref"
    THEN TypeInfoHash(te, look_up_type_id(te, a.to))
    ELSE [tag |-> a.tag,
          name |-> a.name,
          members |-> [i \in 1 .. Len(a.members) |-> MemberHash(te, a.members[i])],
          tps |-> [i \in 1 .. Len(a.tps) |-> TypeParameterHash(te, a.tps[i])]]

RECURSIVE CanChange(_, _)
\* a descriptor that unification may still rewrite: a placeholder, or one built on a placeholder
CanChange(te, a) ==
    CASE a.tag \in {"Unknown", "UnknownGeneric"} -> TRUE
      [] a.tag = "Ref" -> CanChange(te, look_up_type_id(te, a.to))
      [] a.tag \in {"Enum", "Struct"} ->
             \/ \E i \in 1 .. Len(a.members) :
                    CanChange(te, look_up_type_id(te, a.members[i].type))
             \/ \E i \in 1 .. Len(a.tps) :
                    CanChange(te, look_up_type_id(te, a.tps[i].type_id))
      [] OTHER -> FALSE

\* insert(descriptor) -> TypeId: an interned id for a structurally equal descriptor,
\* a fresh id for a placeholder or a descriptor not seen before
insert_type(te, ti) ==
    LET Interned(same) ==
            IF same # {}
            THEN [te |-> te, id |-> CHOOSE i \in same : \A j \in same : i <= j]
            ELSE [te |-> Append(te, ti), id |-> Len(te)]
    IN  IF CanChange(te, ti)
        THEN [te |-> Append(te, ti), id |-> Len(te)]
        ELSE Interned({i \in TypeIds(te) :
                          /\ ~CanChange(te, te[i + 1])
                          /\ TypeInfoEq(te, te[i + 1], ti)})

(***************************************************************************)
(* Declarations and DeclarationWrapper                                     *)
(***************************************************************************)
Decl(name, path, tps, members) ==
    [name |-> name, path |-> path, type_parameters |-> tps, members |-> members]

NoDecl == Decl("", "", <<>>, <<>>)

Wrapper(kind, decl) == [kind |-> kind, decl |-> decl]

WrapperUnknown == Wrapper("Unknown", NoDecl)

\* the span of the declaration's name
NameSpan(decl) == Span(decl.path, 0, 1)

\* the span of the whole declaration
DeclSpan(decl) == Span(decl.path, 0, 5)

WrapperKinds ==
    {"Unknown", "Enum", "Function", "Trait", "TraitFn", "TraitImpl", "Struct", "Storage"}

OtherKinds == {"Abi", "Constant"}

\* friendly_name with the names of Trait and TraitFn exchanged
friendly_name_swapped(kind) ==
    CASE kind = "Unknown" -> "unknown"
      [] kind = "Enum" -> "enum"
      [] kind = "Function" -> "function"
      [] kind = "Trait" -> "trait function"
      [] kind = "Struct" -> "struct"
      [] kind = "TraitImpl" -> "impl trait"
      [] kind = "TraitFn" -> "trait"
      [] kind = "Storage" -> "storage"

\* DeclarationWrapper::friendly_name
friendly_name(kind) ==
    CASE kind = "Unknown" -> "unknown"
      [] kind = "Enum" -> "enum"
      [] kind = "Function" -> "function"
      [] kind = "Trait" -> "trait"
      [] kind = "Struct" -> "struct"
      [] kind = "TraitImpl" -> "impl trait"
      [] kind = "TraitFn" -> "trait function"
      [] kind = "Storage" -> "storage"

friendly_name_other(kind) ==
    CASE kind = "Abi" -> "abi"
      [] kind = "Constant" -> "constant"

FriendlyName(kind) ==
    IF kind \in WrapperKinds THEN friendly_name(kind) ELSE friendly_name_other(kind)

(***************************************************************************)
(* Results and errors                                                      *)
(***************************************************************************)
Error(kind, name, actually, given, expected, span) ==
    [kind |-> kind, name |-> name, actually |-> actually,
     given |-> given, expected |-> expected, span |-> span]

\* what a call returned; mapping and trace record what the monomorphizer did on the way
RetMono(op, arg, id, some, value, warnings, errors, mapping, trace) ==
    [op |-> op, arg |-> arg, id |-> id, some |-> some, value |-> value,
     warnings |-> warnings, errors |-> errors, mapping |-> mapping, trace |-> trace]

Ret(op, arg, id, some, value, warnings, errors) ==
    RetMono(op, arg, id, some, value, warnings, errors, <<>>, <<>>)

NoArg ==
    [kind |-> "", id |-> -1, cache |-> "", decl |-> NoDecl, type_arguments |-> <<>>,
     enforce_type_arguments |-> "", call_site_span |-> FALSE, module_path |-> "",
     self_type |-> -1]

\* the error each expect_<kind> of the wrapper reports for a declaration of another kind
DeclIsNotA(kind) ==
    CASE kind = "Function" -> "DeclIsNotAFunction"
      [] kind = "Trait" -> "DeclIsNotATrait"
      [] kind = "TraitFn" -> "DeclIsNotATraitFn"
      [] kind = "TraitImpl" -> "DeclIsNotAnImplTrait"
      [] kind = "Struct" -> "DeclIsNotAStruct"
      [] kind = "Storage" -> "DeclIsNotStorage"

\* the same for the kinds the engine asks for and the wrapper does not define
DeclIsNotAOther(kind) ==
    CASE kind = "Enum" -> "DeclIsNotAnEnum"
      [] kind = "Abi" -> "DeclIsNotAnAbi"
      [] kind = "Constant" -> "DeclIsNotAConstant"

WrongKind(kind) ==
    IF kind \in {"Enum", "Abi", "Constant"} THEN DeclIsNotAOther(kind) ELSE DeclIsNotA(kind)

\* DeclarationWrapper::expect_<kind>(self, span)
expect(kind, wrapper, span) ==
    IF wrapper.kind = kind
    THEN [ok |-> TRUE, decl |-> wrapper.decl, errors |-> <<>>]
    ELSE IF wrapper.kind = "Unknown"
    THEN [ok |-> FALSE, decl |-> NoDecl,
          errors |-> <<Error("Internal", "did not expect to find unknown declaration",
                             "", 0, 0, span)>>]
    ELSE [ok |-> FALSE, decl |-> NoDecl,
          errors |-> <<Error(WrongKind(kind), "", FriendlyName(wrapper.kind), 0, 0, span)>>]

(***************************************************************************)
(* Declaration engine                                                      *)
(***************************************************************************)
DeclarationSignature(path, name, tps) ==
    [path |-> path, name |-> name, type_parameters |-> tps]

\* derived PartialEq of DeclarationSignature
SigEq(te, a, b) ==
    /\ a.path = b.path
    /\ a.name = b.name
    /\ TypeParametersEq(te, a.type_parameters, b.type_parameters)

\* derived Hash of DeclarationSignature
SigHash(te, a) ==
    [path |-> a.path,
     name |-> a.name,
     tps |-> [i \in 1 .. Len(a.type_parameters) |->
                 TypeParameterHash(te, a.type_parameters[i])]]

\* an entry of the HashMap: the key, the hash it was filed under, the value
CacheEntry(h, key, id) == [h |-> h, key |-> key, id |-> id]

\* HashMap::get: the entries filed under the key's hash whose key compares equal
HashMapGet(te, cache, key) ==
    {e \in cache : e.h = SigHash(te, key) /\ SigEq(te, e.key, key)}

\* HashMap::insert: overwrite the value of an equal key, else file a new entry
HashMapInsert(te, cache, key, id) ==
    LET hits == HashMapGet(te, cache, key)
    IN  IF hits = {}
        THEN {cache \cup {CacheEntry(SigHash(te, key), key, id)}}
        ELSE {(cache \ {e}) \cup {CacheEntry(e.h, e.key, id)} : e \in hits}

\* lookup_decl_from_sig with the type parameters left out of the signature
lookup_decl_from_sig_no_tps(te, cache, name, path, tps) ==
    {e.id : e \in {c \in cache : c.key.path = path /\ c.key.name = name}}

\* the ids Option<DeclarationId> may hold: empty for None
lookup_decl_from_sig(te, cache, name, path, tps) ==
    {e.id : e \in HashMapGet(te, cache, DeclarationSignature(path, name, tps))}

SlabIds == 0 .. (Len(slab) - 1)

look_up_decl_id(index) == slab[index + 1]

SimpleDecl(kind) ==
    CASE kind = "Function" -> Decl("f", "a.sw", <<>>, <<>>)
      [] kind = "Trait" -> Decl("Tr", "a.sw", <<>>, <<>>)
      [] kind = "TraitFn" -> Decl("g", "a.sw", <<>>, <<>>)
      [] kind = "TraitImpl" -> Decl("Tr", "b.sw", <<>>, <<>>)
      [] kind = "Struct" -> Decl("S", "a.sw", <<>>, <<>>)
      [] kind = "Storage" -> Decl("storage", "a.sw", <<>>, <<>>)
      [] kind = "Abi" -> Decl("Abi", "a.sw", <<>>, <<>>)
      [] kind = "Constant" -> Decl("C", "a.sw", <<>>, <<>>)
      [] OTHER -> NoDecl

\* the typed enum declarations a caller can hand to the engine: E of a.sw with no
\* type parameter or one whose type is any interned id, and two declarations that
\* differ from the first in the name only and in the defining file only
EnumDeclInputs(te) ==
    {Decl("E", "a.sw", <<>>, <<>>), Decl("F", "a.sw", <<>>, <<>>), Decl("E", "b.sw", <<>>, <<>>)}
    \cup {Decl("E", "a.sw", <<TypeParameter(id, "T")>>, <<Member("A", id, 0)>>) :
              id \in TypeIds(te) \cap 0 .. 2}

\* the wrappers a caller can hand to replace_decl_id and insert
WrapperInputs ==
    {WrapperUnknown,
     Wrapper("Function", SimpleDecl("Function")),
     Wrapper("Enum", Decl("E", "a.sw", <<>>, <<>>))}

\* an insert that takes the index of the last entry when there is one
insert_over_last(wrapper, op) ==
    /\ slab # <<>>
    /\ slab' = [slab EXCEPT ![Len(slab)] = wrapper]
    /\ ret' = Ret(op, [NoArg EXCEPT !.kind = wrapper.kind, !.decl = wrapper.decl],
                  Len(slab) - 1, FALSE, NoDecl, <<>>, <<>>)
    /\ UNCHANGED <<decls, types, modules, insts, threads, implemented_traits, symbols, scope, typed_nodes, service, functions, panicked>>

\* DeclarationEngine::insert
insert(wrapper, op) ==
    /\ Len(slab) < MaxSlab
    /\ slab' = Append(slab, wrapper)
    /\ ret' = Ret(op, [NoArg EXCEPT !.kind = wrapper.kind, !.decl = wrapper.decl],
                  Len(slab), FALSE, NoDecl, <<>>, <<>>)
    /\ UNCHANGED <<decls, types, modules, insts, threads, implemented_traits, symbols, scope, typed_nodes, service, functions, panicked>>

de_insert ==
    \E w \in WrapperInputs : insert(w, "insert")

insert_function == insert(Wrapper("Function", SimpleDecl("Function")), "insert_function")

insert_trait == insert(Wrapper("Trait", SimpleDecl("Trait")), "insert_trait")

insert_trait_fn == insert(Wrapper("TraitFn", SimpleDecl("TraitFn")), "insert_trait_fn")

insert_impl_trait == insert(Wrapper("TraitImpl", SimpleDecl("TraitImpl")), "insert_impl_trait")

insert_struct == insert(Wrapper("Struct", SimpleDecl("Struct")), "insert_struct")

insert_storage == insert(Wrapper("Storage", SimpleDecl("Storage")), "insert_storage")

insert_abi == insert(Wrapper("Abi", SimpleDecl("Abi")), "insert_abi")

insert_constant == insert(Wrapper("Constant", SimpleDecl("Constant")), "insert_constant")

\* DeclarationEngine::get_<kind>
get(kind) ==
    \E index \in SlabIds :
        LET r == expect(kind, look_up_decl_id(index), NoSpan)
        IN  /\ ret' = Ret("get", [NoArg EXCEPT !.kind = kind, !.id = index],
                          index, r.ok, r.decl, <<>>, r.errors)
            /\ UNCHANGED <<slab, decls, types, modules, insts, threads, implemented_traits, symbols, scope, typed_nodes, service, functions, panicked>>

get_function == get("Function")

get_trait == get("Trait")

get_trait_fn == get("TraitFn")

get_impl_trait == get("TraitImpl")

get_struct == get("Struct")

get_storage == get("Storage")

get_abi == get("Abi")

get_constant == get("Constant")

get_enum == get("Enum")

\* replace_decl_id writing to the slot after the one asked for
replace_decl_id_off_by_one ==
    \E index \in SlabIds, wrapper \in WrapperInputs :
        /\ index + 2 <= Len(slab)
        /\ slab' = [slab EXCEPT ![index + 2] = wrapper]
        /\ ret' = Ret("replace_decl_id",
                      [NoArg EXCEPT !.kind = wrapper.kind, !.id = index, !.decl = wrapper.decl],
                      -1, FALSE, NoDecl, <<>>, <<>>)
        /\ UNCHANGED <<decls, types, modules, insts, threads, implemented_traits, symbols, scope, typed_nodes, service, functions, panicked>>

\* DeclarationEngine::replace_decl_id
replace_decl_id ==
    \E index \in SlabIds, wrapper \in WrapperInputs :
        /\ slab' = [slab EXCEPT ![index + 1] = wrapper]
        /\ ret' = Ret("replace_decl_id",
                      [NoArg EXCEPT !.kind = wrapper.kind, !.id = index, !.decl = wrapper.decl],
                      -1, FALSE, NoDecl, <<>>, <<>>)
        /\ UNCHANGED <<decls, types, modules, insts, threads, implemented_traits, symbols, scope, typed_nodes, service, functions, panicked>>

\* DeclarationEngine::clear
clear ==
    /\ slab' = <<>>
    /\ ret' = Ret("clear", NoArg, -1, FALSE, NoDecl, <<>>, <<>>)
    /\ UNCHANGED <<decls, types, modules, insts, threads, implemented_traits, symbols, scope, typed_nodes, service, functions, panicked>>

\* DeclarationEngine::insert_enum
insert_enum_with(enum_decl, cache_lookup) ==
    LET lookup_decl ==
            IF cache_lookup = "Enable"
            THEN lookup_decl_from_sig(types, decls, enum_decl.name, enum_decl.path,
                                      enum_decl.type_parameters)
            ELSE {}
        arg == [NoArg EXCEPT !.kind = "Enum", !.cache = cache_lookup, !.decl = enum_decl]
    IN  IF lookup_decl # {}
        THEN \E id \in lookup_decl :
                /\ ret' = Ret("insert_enum", arg, id, FALSE, NoDecl, <<>>, <<>>)
                /\ UNCHANGED <<slab, decls, types, modules, insts, threads, implemented_traits, symbols, scope, typed_nodes, service, functions, panicked>>
        ELSE /\ Len(slab) < MaxSlab
             /\ Cardinality(decls) < MaxDecls
             /\ slab' = Append(slab, Wrapper("Enum", enum_decl))
             /\ decls' \in HashMapInsert(types, decls,
                                         DeclarationSignature(enum_decl.path, enum_decl.name,
                                                              enum_decl.type_parameters),
                                         Len(slab))
             /\ ret' = Ret("insert_enum", arg, Len(slab), FALSE, NoDecl, <<>>, <<>>)
             /\ UNCHANGED <<types, modules, insts, threads, implemented_traits, symbols, scope, typed_nodes, service, functions, panicked>>

insert_enum ==
    \E enum_decl \in EnumDeclInputs(types), cache_lookup \in {"Enable", "Disable"} :
        insert_enum_with(enum_decl, cache_lookup)

\* de_lookup_enum
lookup_enum ==
    \E d \in EnumDeclInputs(types) :
        LET found == lookup_decl_from_sig(types, decls, d.name, d.path, d.type_parameters)
            arg == [NoArg EXCEPT !.kind = "Enum", !.decl = d]
        IN  /\ \/ /\ found = {}
                  /\ ret' = Ret("lookup_enum", arg, -1, FALSE, NoDecl, <<>>, <<>>)
               \/ \E id \in found :
                      ret' = Ret("lookup_enum", arg, id, TRUE, NoDecl, <<>>, <<>>)
            /\ UNCHANGED <<slab, decls, types, modules, insts, threads, implemented_traits, symbols, scope, typed_nodes, service, functions, panicked>>

\* the path of a span that has no source file: Span::path() is None
NoPath == ""

\* the enum declarations a caller can hand to the engine when spans need not come from a
\* source file: G is a declaration whose name has a span without a path
SpannedEnumInputs ==
    {Decl("E", "a.sw", <<>>, <<>>), Decl("F", "a.sw", <<>>, <<>>), Decl("E", "b.sw", <<>>, <<>>),
     Decl("F", "b.sw", <<>>, <<>>), Decl("G", NoPath, <<>>, <<>>)}

\* DeclarationEngine::insert_enum when name.span().path() may be None: with the cache
\* enabled the unwrap of lookup_decl_from_sig panics; with the cache disabled the
\* declaration is stored in the slab first and the unwrap of insert_enum panics then
insert_enum_spanned ==
    /\ ~panicked
    /\ \E enum_decl \in SpannedEnumInputs, cache_lookup \in {"Enable", "Disable"} :
           IF enum_decl.path # NoPath
           THEN insert_enum_with(enum_decl, cache_lookup)
           ELSE /\ IF cache_lookup = "Enable"
                   THEN slab' = slab
                   ELSE /\ Len(slab) < MaxSlab
                        /\ slab' = Append(slab, Wrapper("Enum", enum_decl))
                /\ panicked' = TRUE
                /\ ret' = Ret("insert_enum",
                              [NoArg EXCEPT !.kind = "Enum", !.cache = cache_lookup, !.decl = enum_decl],
                              -1, FALSE, NoDecl, <<>>, <<>>)
                /\ UNCHANGED <<decls, types, modules, insts, threads, implemented_traits, symbols, scope, typed_nodes, service, functions>>

\* de_lookup_enum when name.span().path() may be None
lookup_enum_spanned ==
    /\ ~panicked
    /\ \E d \in SpannedEnumInputs :
           LET arg == [NoArg EXCEPT !.kind = "Enum", !.decl = d]
               Found(found) ==
                   \/ /\ found = {}
                      /\ ret' = Ret("lookup_enum", arg, -1, FALSE, NoDecl, <<>>, <<>>)
                   \/ \E id \in found :
                          ret' = Ret("lookup_enum", arg, id, TRUE, NoDecl, <<>>, <<>>)
           IN  IF d.path # NoPath
               THEN /\ Found(lookup_decl_from_sig(types, decls, d.name, d.path, d.type_parameters))
                    /\ UNCHANGED <<slab, decls, types, modules, insts, threads, implemented_traits, symbols, scope, typed_nodes, service, functions, panicked>>
               ELSE /\ panicked' = TRUE
                    /\ ret' = Ret("lookup_enum", arg, -1, FALSE, NoDecl, <<>>, <<>>)
                    /\ UNCHANGED <<slab, decls, types, modules, insts, threads, implemented_traits, symbols, scope, typed_nodes, service, functions>>

\* the threads that share the engine through the lazy_static DECLARATION_ENGINE
Threads == {1, 2}

\* a thread outside insert_enum, and one inside it with its locals
Idle == [pc |-> "idle", enum_decl |-> NoDecl, cache_lookup |-> "", id |-> -1]

InCall(pc, enum_decl, cache_lookup, id) ==
    [pc |-> pc, enum_decl |-> enum_decl, cache_lookup |-> cache_lookup, id |-> id]

\* the declarations two threads hand to insert_enum
ThreadDeclInputs == {Decl("E", "a.sw", <<>>, <<>>), Decl("F", "a.sw", <<>>, <<>>)}

\* insert_enum, first section: the cache lookup under the read lock of decls
insert_enum_lookup(t) ==
    /\ threads[t].pc = "idle"
    /\ \E enum_decl \in ThreadDeclInputs, cache_lookup \in {"Enable", "Disable"} :
           LET lookup_decl ==
                   IF cache_lookup = "Enable"
                   THEN lookup_decl_from_sig(types, decls, enum_decl.name, enum_decl.path,
                                             enum_decl.type_parameters)
                   ELSE {}
           IN  IF lookup_decl # {}
               THEN \E id \in lookup_decl :
                        threads' = [threads EXCEPT
                                        ![t] = InCall("returned", enum_decl, cache_lookup, id)]
               ELSE threads' = [threads EXCEPT
                                    ![t] = InCall("insert", enum_decl, cache_lookup, -1)]
    /\ UNCHANGED <<slab, decls, types, modules, ret, insts, implemented_traits, symbols, scope, typed_nodes, service, functions, panicked>>

\* insert_enum, second section: self.insert stores the wrapper in the slab
insert_enum_insert(t) ==
    /\ threads[t].pc = "insert"
    /\ Len(slab) < MaxSlab
    /\ slab' = Append(slab, Wrapper("Enum", threads[t].enum_decl))
    /\ threads' = [threads EXCEPT ![t].pc = "decls", ![t].id = Len(slab)]
    /\ UNCHANGED <<decls, types, modules, ret, insts, implemented_traits, symbols, scope, typed_nodes, service, functions, panicked>>

\* insert_enum, third section: the signature is filed under the write lock of decls
insert_enum_decls(t) ==
    /\ threads[t].pc = "decls"
    /\ decls' \in HashMapInsert(types, decls,
                                DeclarationSignature(threads[t].enum_decl.path,
                                                     threads[t].enum_decl.name,
                                                     threads[t].enum_decl.type_parameters),
                                threads[t].id)
    /\ threads' = [threads EXCEPT ![t].pc = "returned"]
    /\ UNCHANGED <<slab, types, modules, ret, insts, implemented_traits, symbols, scope, typed_nodes, service, functions, panicked>>

\* the descriptors the checkers intern for the annotations of the program under
\* analysis, in source order: u64, a generic T, a reference to the u64, bool, an
\* a generic U, an unknown name
Annotations ==
    <<TyU64, TyUnknownGeneric("T"), TyRef(0), TyBool, TyUnknownGeneric("U"), TyCustom("X"),
      TySelfType>>

\* TypeEngine::insert_type as an operation of its own: the next annotation is interned
te_insert_type ==
    /\ Len(types) < Len(Annotations)
    /\ types = SubSeq(Annotations, 1, Len(types))
    /\ LET Interned(r) ==
               /\ types' = r.te
               /\ ret' = Ret("insert_type", NoArg, r.id, FALSE, NoDecl, <<>>, <<>>)
       IN  Interned(insert_type(types, Annotations[Len(types) + 1]))
    /\ UNCHANGED <<slab, decls, modules, insts, threads, implemented_traits, symbols, scope, typed_nodes, service, functions, panicked>>

(***************************************************************************)
(* Namespace: modules and their implemented-traits tables                  *)
(***************************************************************************)
ModulePaths == {"lib"}

\* a module path that names no module of the namespace
MissingModule == "missing"

\* Root::check_submodule_mut
check_submodule_mut(ns, module_path) ==
    IF module_path \in DOMAIN ns
    THEN [ok |-> TRUE, errors |-> <<>>]
    ELSE [ok |-> FALSE,
          errors |-> <<Error("ModuleNotFound", module_path, "", 0, 0, NoSpan)>>]

\* one method of one trait implemented for a type
TraitEntry(ty, trait, method) == [ty |-> ty, trait |-> trait, method |-> method]

\* the entries of a module registered for a type
get_methods_for_type(te, items, ti) == {e \in items : TypeInfoEq(te, e.ty, ti)}

\* the methods, by trait and name, a module offers on a type
MethodsOf(te, items, ti) ==
    {<<e.trait, e.method>> : e \in get_methods_for_type(te, items, ti)}

\* Items::copy_methods_to_type
copy_methods_to_type(te, items, old_type, new_type, type_mapping) ==
    items \cup {TraitEntry(new_type, e.trait, e.method) :
                    e \in get_methods_for_type(te, items, old_type)}

(***************************************************************************)
(* Unification                                                             *)
(***************************************************************************)
Placeholders == {"Unknown", "UnknownGeneric"}

\* the id a chain of Ref links ends at
RECURSIVE RepId(_, _)
RepId(te, id) ==
    IF te[id + 1].tag = "Ref" THEN RepId(te, te[id + 1].to) ELSE id

Event(ev, a, b) == [ev |-> ev, a |-> a, b |-> b]

TypeMismatch(received, expected, span) ==
    Error("TypeMismatch", "", "", received, expected, span)

RECURSIVE unify(_, _, _, _)
RECURSIVE unify_all(_, _, _, _, _)
\* unify the ids of as and bs pairwise, left to right
unify_all(te, as, bs, span, errors) ==
    IF as = <<>>
    THEN [te |-> te, errors |-> errors]
    ELSE LET Rest(r) == unify_all(r.te, Tail(as), Tail(bs), span, errors \o r.errors)
         IN  Rest(unify(te, Head(as), Head(bs), span))

\* unify(received, expected, span, help_text) -> errors, rewriting placeholders in place
unify(te, received, expected, span) ==
    LET a == RepId(te, received)
        b == RepId(te, expected)
        x == te[a + 1]
        y == te[b + 1]
    IN  IF a = b
        THEN [te |-> te, errors |-> <<>>]
        ELSE IF x.tag \in Placeholders /\ y.tag \in Placeholders
        THEN [te |-> [te EXCEPT ![Max2(a, b) + 1] = TyRef(Min2(a, b))], errors |-> <<>>]
        ELSE IF x.tag \in Placeholders
        THEN [te |-> [te EXCEPT ![a + 1] = TyRef(b)], errors |-> <<>>]
        ELSE IF y.tag \in Placeholders
        THEN [te |-> [te EXCEPT ![b + 1] = TyRef(a)], errors |-> <<>>]
        ELSE IF x.tag = "ErrorRecovery" \/ y.tag = "ErrorRecovery"
        THEN [te |-> te, errors |-> <<>>]
        ELSE IF x.tag = y.tag /\ x.tag \in {"U64", "Bool"}
        THEN [te |-> te, errors |-> <<>>]
        ELSE IF /\ x.tag = y.tag
                /\ x.tag \in {"Enum", "Struct"}
                /\ x.name = y.name
                /\ Len(x.members) = Len(y.members)
                /\ Len(x.tps) = Len(y.tps)
        THEN unify_all(te,
                       [i \in 1 .. Len(x.members) |-> x.members[i].type]
                           \o [i \in 1 .. Len(x.tps) |-> x.tps[i].type_id],
                       [i \in 1 .. Len(y.members) |-> y.members[i].type]
                           \o [i \in 1 .. Len(y.tps) |-> y.tps[i].type_id],
                       span, <<>>)
        ELSE [te |-> te, errors |-> <<TypeMismatch(received, expected, span)>>]

\* unify_with_self: the self type stands in for Self on either side
unify_with_self(te, received, expected, self_type, span) ==
    unify(te,
          IF look_up_type_id(te, received).tag = "SelfType" THEN self_type ELSE received,
          IF look_up_type_id(te, expected).tag = "SelfType" THEN self_type ELSE expected,
          span)

\* the pairs (received, expected) of annotations the checkers unify: the generic T
\* with the u64 and with the bool, the generic U with the generic T and with the bool
UnifyInputs == {<<1, 0>>, <<1, 3>>, <<4, 1>>, <<4, 3>>}

\* unify as an operation of its own, on two interned annotations
te_unify ==
    \E p \in UnifyInputs :
        /\ p[1] \in TypeIds(types)
        /\ p[2] \in TypeIds(types)
        /\ LET Unified(r) ==
                   /\ types' = r.te
                   /\ ret' = Ret("unify", [NoArg EXCEPT !.type_arguments = p], -1, FALSE,
                              NoDecl, <<>>, r.errors)
           IN  Unified(unify(types, p[1], p[2], NoSpan))
        /\ UNCHANGED <<slab, decls, modules, insts, threads, implemented_traits, symbols, scope, typed_nodes, service, functions, panicked>>

\* the keys of one kind a caller can build over the interned ids: type parameters,
\* enum variants and struct fields (tag 0), and declaration signatures
KeyKinds == {"TypeParameter", "Member", "Signature"}

KeyInputs(te, kind) ==
    CASE kind = "TypeParameter" ->
             {TypeParameter(id, "T") : id \in TypeIds(te)}
                 \cup {TypeParameter(id, "U") : id \in TypeIds(te) \cap {0}}
      [] kind = "Member" ->
             {Member("A", id, 0) : id \in TypeIds(te)}
                 \cup {Member("A", id, 1) : id \in TypeIds(te) \cap {0}}
                 \cup {Member("B", id, 0) : id \in TypeIds(te) \cap {0}}
      [] kind = "Signature" ->
             {DeclarationSignature("a.sw", "E", <<TypeParameter(id, "T")>>) :
                  id \in TypeIds(te)}
                 \cup {DeclarationSignature("a.sw", "E", <<>>),
                       DeclarationSignature("b.sw", "E", <<>>),
                       DeclarationSignature("a.sw", "F", <<>>)}

\* k1 == k2 of the kind
KeyEq(te, kind, k1, k2) ==
    CASE kind = "TypeParameter" -> TypeParameterEq(te, k1, k2)
      [] kind = "Member" -> MemberEq(te, k1, k2)
      [] kind = "Signature" -> SigEq(te, k1, k2)

\* what the kind's Hash feeds to the hasher
KeyHash(te, kind, k) ==
    CASE kind = "TypeParameter" -> TypeParameterHash(te, k)
      [] kind = "Member" -> MemberHash(te, k)
      [] kind = "Signature" -> SigHash(te, k)

\* two keys are compared and hashed in the current state of the type engine
eq_and_hash ==
    \E kind \in KeyKinds :
        \E k1, k2 \in KeyInputs(types, kind) :
            /\ ret' = RetMono("eq_and_hash", [NoArg EXCEPT !.kind = kind], -1,
                              KeyEq(types, kind, k1, k2), NoDecl, <<>>, <<>>,
                              <<k1, k2>>,
                              <<KeyHash(types, kind, k1), KeyHash(types, kind, k2)>>)
            /\ UNCHANGED <<slab, decls, types, modules, insts, threads, implemented_traits, symbols, scope, typed_nodes, service, functions, panicked>>

(***************************************************************************)
(* Type mappings and substitution                                          *)
(***************************************************************************)
\* one pair of a TypeMapping: the declared parameter's id and the id that replaces it
MappingEntry(from, to) == [from |-> from, to |-> to]

RECURSIVE insert_type_parameters_from(_, _, _)
insert_type_parameters_from(te, type_parameters, acc) ==
    IF type_parameters = <<>>
    THEN [te |-> te, mapping |-> acc]
    ELSE LET Rest(r) ==
                 insert_type_parameters_from(
                     r.te, Tail(type_parameters),
                     Append(acc, MappingEntry(Head(type_parameters).type_id, r.id)))
         IN  Rest(insert_type(te, TyUnknownGeneric(Head(type_parameters).name_ident)))

\* insert_type_parameters: a fresh placeholder for every type parameter, in order
insert_type_parameters(te, type_parameters) ==
    insert_type_parameters_from(te, type_parameters, <<>>)

\* TypeInfo::matches_type_parameter: the replacement of the first parameter of the
\* mapping that this generic or unresolved name denotes; empty for None
RECURSIVE matches_type_parameter(_, _, _)
matches_type_parameter(te, ti, type_mapping) ==
    IF type_mapping = <<>> \/ ti.tag \notin {"UnknownGeneric", "Custom"}
    THEN {}
    ELSE IF TypeInfoEq(te, look_up_type_id(te, Head(type_mapping).from), ti)
    THEN {Head(type_mapping).to}
    ELSE matches_type_parameter(te, ti, Tail(type_mapping))

\* TypeId::update_type
update_type(te, type_id, type_mapping) ==
    LET Match(m) ==
            IF m # {}
            THEN insert_type(te, TyRef(CHOOSE id \in m : TRUE))
            ELSE insert_type(te, TyRef(type_id))
    IN  Match(matches_type_parameter(te, look_up_type_id(te, type_id), type_mapping))

\* CopyTypes for TypeParameter
copy_types_type_parameter(te, tp, type_mapping) ==
    LET Outer(inner) == insert_type(inner.te, TyRef(inner.id))
        Match(m) ==
            IF m # {}
            THEN insert_type(te, TyRef(CHOOSE id \in m : TRUE))
            ELSE Outer(insert_type(te, look_up_type_id_raw(te, tp.type_id)))
    IN  Match(matches_type_parameter(te, look_up_type_id(te, tp.type_id), type_mapping))

RECURSIVE copy_types_members(_, _, _, _)
\* CopyTypes for every TypedEnumVariant / TypedStructField, in order
copy_types_members(te, members, type_mapping, acc) ==
    IF members = <<>>
    THEN [te |-> te, members |-> acc]
    ELSE LET Rest(r) ==
                 copy_types_members(r.te, Tail(members), type_mapping,
                                    Append(acc, [Head(members) EXCEPT !.type = r.id]))
         IN  Rest(update_type(te, Head(members).type, type_mapping))

RECURSIVE copy_types_type_parameters(_, _, _, _)
\* CopyTypes for every TypeParameter, in order
copy_types_type_parameters(te, tps, type_mapping, acc) ==
    IF tps = <<>>
    THEN [te |-> te, tps |-> acc]
    ELSE LET Rest(r) ==
                 copy_types_type_parameters(r.te, Tail(tps), type_mapping,
                                            Append(acc, [Head(tps) EXCEPT !.type_id = r.id]))
         IN  Rest(copy_types_type_parameter(te, Head(tps), type_mapping))

\* CopyTypes for TypedEnumDeclaration / TypedStructDeclaration: the variants or
\* fields first, the type parameters after them
copy_types(te, decl, type_mapping) ==
    LET Parameters(ms, ps) ==
            [te |-> ps.te,
             decl |-> [decl EXCEPT !.members = ms.members, !.type_parameters = ps.tps]]
        Members(ms) ==
            Parameters(ms, copy_types_type_parameters(ms.te, decl.type_parameters,
                                                      type_mapping, <<>>))
    IN  Members(copy_types_members(te, decl.members, type_mapping, <<>>))

\* create_type_id deriving a type of its own at every call: each variant or field is
\* stamped with the number of descriptors the engine holds
create_type_id_per_call(te, w) ==
    insert_type(te, TI(w.kind, w.decl.name, 0,
                       [i \in 1 .. Len(w.decl.members) |->
                           [w.decl.members[i] EXCEPT !.tag = Len(te)]],
                       w.decl.type_parameters))

\* CreateTypeId for TypedEnumDeclaration / TypedStructDeclaration
create_type_id(te, w) ==
    insert_type(te, TI(w.kind, w.decl.name, 0, w.decl.members, w.decl.type_parameters))

(***************************************************************************)
(* Monomorphizer                                                           *)
(***************************************************************************)
TypeArgument(type_id, span) == [type_id |-> type_id, span |-> span]

CallSiteSpan == Span("use.sw", 7, 9)

MonoResult(te, ns, some, value, warnings, errors, mapping, trace) ==
    [te |-> te, ns |-> ns, some |-> some, value |-> value, warnings |-> warnings,
     errors |-> errors, mapping |-> mapping, trace |-> trace]

\* Root::resolve_type_without_self: a name no symbol answers to does not resolve,
\* any other descriptor is interned
resolve_type_without_self(te, ns, ti, span, module_path) ==
    IF ti.tag = "Custom"
    THEN [ok |-> FALSE, te |-> te, id |-> -1,
          errors |-> IF module_path \in DOMAIN ns
                     THEN <<Error("UnknownTypeName", ti.name, "", 0, 0, span)>>
                     ELSE <<Error("ModuleNotFound", module_path, "", 0, 0, span)>>]
    ELSE LET Interned(r) == [ok |-> TRUE, te |-> r.te, id |-> r.id, errors |-> <<>>]
         IN  Interned(insert_type(te, ti))

\* Root::resolve_type_with_self: Self resolves to the self type
resolve_type_with_self(te, ns, ti, self_type, span, enforce_type_arguments, module_path) ==
    IF ti.tag = "SelfType"
    THEN [ok |-> TRUE, te |-> te, id |-> self_type, errors |-> <<>>]
    ELSE resolve_type_without_self(te, ns, ti, span, module_path)

\* the self type handed to monomorphize_with_self; with |-> FALSE for monomorphize_without_self
SelfArg(with, self_type, enforce_type_arguments) ==
    [with |-> with, self_type |-> self_type, enforce |-> enforce_type_arguments]

RECURSIVE resolve_type_arguments(_, _, _, _, _, _, _)
\* the first loop of resolve_types_with_self / resolve_types_without_self
resolve_type_arguments(te, ns, type_arguments, module_path, self, acc, errors) ==
    IF type_arguments = <<>>
    THEN [te |-> te, type_arguments |-> acc, errors |-> errors]
    ELSE LET arg == Head(type_arguments)
             Rest(r) ==
                 resolve_type_arguments(r.te, ns, Tail(type_arguments), module_path, self,
                                        Append(acc, [arg EXCEPT !.type_id = r.id]),
                                        errors \o r.errors)
             Recover(r, rec) ==
                 Rest([ok |-> FALSE, te |-> rec.te, id |-> rec.id, errors |-> r.errors])
             Checked(r) ==
                 IF r.ok THEN Rest(r) ELSE Recover(r, insert_type(r.te, TyErrorRecovery))
         IN  IF self.with
             THEN Checked(resolve_type_with_self(te, ns, look_up_type_id(te, arg.type_id),
                                                 self.self_type, arg.span, self.enforce,
                                                 module_path))
             ELSE Checked(resolve_type_without_self(te, ns,
                                                    look_up_type_id(te, arg.type_id),
                                                    arg.span, module_path))

RECURSIVE unify_type_arguments(_, _, _, _, _, _)
\* the second loop: zip the mapping with the type arguments and unify each pair
unify_type_arguments(te, type_mapping, type_arguments, self, errors, trace) ==
    IF type_mapping = <<>> \/ type_arguments = <<>>
    THEN [te |-> te, errors |-> errors, trace |-> trace]
    ELSE LET interim_type == Head(type_mapping).to
             arg == Head(type_arguments)
             Rest(r) ==
                 unify_type_arguments(r.te, Tail(type_mapping), Tail(type_arguments), self,
                                      errors \o r.errors,
                                      Append(trace, Event("unify", interim_type, arg.type_id)))
         IN  IF self.with
             THEN Rest(unify_with_self(te, interim_type, arg.type_id, self.self_type,
                                       arg.span))
             ELSE Rest(unify(te, interim_type, arg.type_id, arg.span))

\* resolve_types pairing the placeholders with the type arguments from the last one back
resolve_types_reversed(te, ns, w, type_arguments, module_path, self) ==
    LET Unified(tm, un) ==
            [te |-> un.te, mapping |-> tm.mapping, warnings |-> <<>>, errors |-> un.errors,
             trace |-> un.trace]
        Mapped(args, tm) ==
            Unified(tm, unify_type_arguments(
                            tm.te, tm.mapping,
                            [i \in 1 .. Len(args.type_arguments) |->
                                args.type_arguments[Len(args.type_arguments) + 1 - i]],
                            self, args.errors, <<>>))
        Resolved(args) ==
            Mapped(args, insert_type_parameters(args.te, w.decl.type_parameters))
    IN  Resolved(resolve_type_arguments(te, ns, type_arguments, module_path, self,
                                        <<>>, <<>>))

\* resolve_types_with_self / resolve_types_without_self
resolve_types(te, ns, w, type_arguments, module_path, self) ==
    LET Unified(tm, un) ==
            [te |-> un.te, mapping |-> tm.mapping, warnings |-> <<>>, errors |-> un.errors,
             trace |-> un.trace]
        Mapped(args, tm) ==
            Unified(tm, unify_type_arguments(tm.te, tm.mapping, args.type_arguments, self,
                                             args.errors, <<>>))
        Resolved(args) ==
            Mapped(args, insert_type_parameters(args.te, w.decl.type_parameters))
    IN  Resolved(resolve_type_arguments(te, ns, type_arguments, module_path, self,
                                        <<>>, <<>>))

\* monomorphize_decl with the methods copied before the types are rewritten
monomorphize_decl_copy_first(te, items, w, type_mapping) ==
    LET Copied(old, cp) ==
            [te |-> cp.te,
             items |-> copy_methods_to_type(cp.te, items, look_up_type_id(cp.te, old.id),
                                            look_up_type_id(cp.te, old.id), type_mapping),
             decl |-> cp.decl,
             trace |-> <<Event("create_type_id", old.id, 0),
                         Event("copy_methods_to_type", old.id, old.id),
                         Event("copy_types", 0, 0)>>]
        Derived(old) == Copied(old, copy_types(old.te, w.decl, type_mapping))
    IN  Derived(create_type_id(te, w))

\* monomorphize_decl
monomorphize_decl(te, items, w, type_mapping) ==
    LET Rederived(old, cp, new) ==
            [te |-> new.te,
             items |-> copy_methods_to_type(new.te, items, look_up_type_id(new.te, old.id),
                                            look_up_type_id(new.te, new.id), type_mapping),
             decl |-> cp.decl,
             trace |-> <<Event("create_type_id", old.id, 0),
                         Event("copy_types", 0, 0),
                         Event("create_type_id", new.id, 0),
                         Event("copy_methods_to_type", old.id, new.id)>>]
        Copied(old, cp) == Rederived(old, cp, create_type_id(cp.te, Wrapper(w.kind, cp.decl)))
        Derived(old) == Copied(old, copy_types(old.te, w.decl, type_mapping))
    IN  Derived(create_type_id(te, w))

\* MonomorphizeHelper::monomorphize_self of a struct or enum, on the module's items
monomorphize_self(te, ns, module_path, w, type_mapping) ==
    LET InModule(r) ==
            [te |-> r.te, ns |-> [ns EXCEPT ![module_path] = r.items], decl |-> r.decl,
             trace |-> r.trace]
    IN  InModule(monomorphize_decl(te, ns[module_path], w, type_mapping))

\* monomorphize_inner, (true, true), instantiating the declaration all the same
monomorphize_as_is_instantiated(te, ns, w) ==
    LET Done(new) == MonoResult(new.te, new.ns, TRUE, new.decl, <<>>, <<>>, <<>>, new.trace)
    IN  Done(monomorphize_self(te, ns, "lib", w, <<>>))

\* monomorphize_inner, (true, true): no type parameters, no type arguments
monomorphize_as_is(te, ns, w) ==
    MonoResult(te, ns, TRUE, w.decl, <<>>, <<>>, <<>>, <<>>)

\* monomorphize_inner, (false, true) with the enforcement flag ignored
monomorphize_without_arguments_lenient(te, ns, w, enforce_type_arguments, call_site_span, module_path) ==
    LET module == check_submodule_mut(ns, module_path)
        Done(tm, new) ==
            MonoResult(new.te, new.ns, TRUE, new.decl, <<>>, <<>>, tm.mapping, new.trace)
        Mapped(tm) ==
            IF ~module.ok
            THEN MonoResult(tm.te, ns, FALSE, NoDecl, <<>>, module.errors, tm.mapping, <<>>)
            ELSE Done(tm, monomorphize_self(tm.te, ns, module_path, w, tm.mapping))
    IN  Mapped(insert_type_parameters(te, w.decl.type_parameters))

\* monomorphize_inner, (false, true): type parameters, no type arguments
monomorphize_without_arguments(te, ns, w, enforce_type_arguments, call_site_span, module_path) ==
    IF enforce_type_arguments = "Yes"
    THEN MonoResult(te, ns, FALSE, NoDecl, <<>>,
                    <<Error("NeedsTypeArguments", w.decl.name, "", 0, 0,
                            IF call_site_span THEN CallSiteSpan ELSE NameSpan(w.decl))>>,
                    <<>>, <<>>)
    ELSE LET module == check_submodule_mut(ns, module_path)
             Done(tm, new) ==
                 MonoResult(new.te, new.ns, TRUE, new.decl, <<>>, <<>>, tm.mapping,
                            new.trace)
             Mapped(tm) ==
                 IF ~module.ok
                 THEN MonoResult(tm.te, ns, FALSE, NoDecl, <<>>, module.errors, tm.mapping,
                                 <<>>)
                 ELSE Done(tm, monomorphize_self(tm.te, ns, module_path, w, tm.mapping))
         IN  Mapped(insert_type_parameters(te, w.decl.type_parameters))

RECURSIVE JoinSpans(_)
\* type_arguments.iter().map(|x| x.span).reduce(Span::join), for one argument or more
JoinSpans(type_arguments) ==
    IF Len(type_arguments) = 1
    THEN type_arguments[1].span
    ELSE SpanJoin(JoinSpans(SubSeq(type_arguments, 1, Len(type_arguments) - 1)),
                  type_arguments[Len(type_arguments)].span)

\* monomorphize_inner, (true, false), treating the arguments as if none were given
monomorphize_surplus_arguments_ignored(te, ns, w, type_arguments) ==
    MonoResult(te, ns, TRUE, w.decl, <<>>, <<>>, <<>>, <<>>)

\* monomorphize_inner, (true, false): no type parameters, type arguments
monomorphize_surplus_arguments(te, ns, w, type_arguments) ==
    MonoResult(te, ns, FALSE, NoDecl, <<>>,
               <<Error("DoesNotTakeTypeArguments", w.decl.name, "", 0, 0,
                       JoinSpans(type_arguments))>>,
               <<>>, <<>>)

\* the rest of (false, false) once the numbers agree
monomorphize_resolved(te, ns, w, type_arguments, module_path, self) ==
    LET module == check_submodule_mut(ns, module_path)
        Done(tm, new) ==
            MonoResult(new.te, new.ns, TRUE, new.decl, tm.warnings, tm.errors,
                       tm.mapping, tm.trace \o new.trace)
        Mapped(tm) ==
            IF ~module.ok
            THEN MonoResult(tm.te, ns, FALSE, NoDecl, tm.warnings,
                            tm.errors \o module.errors, tm.mapping, tm.trace)
            ELSE Done(tm, monomorphize_self(tm.te, ns, module_path, w, tm.mapping))
    IN  Mapped(resolve_types(te, ns, w, type_arguments, module_path, self))

\* monomorphize_inner, (false, false), with the check of the numbers after the unification
monomorphize_with_arguments_late_check(te, ns, w, type_arguments, module_path, self) ==
    LET Checked(r) ==
            IF Len(w.decl.type_parameters) # Len(type_arguments)
            THEN MonoResult(r.te, ns, FALSE, NoDecl, <<>>,
                            r.errors \o
                            <<Error("IncorrectNumberOfTypeArguments", "", "",
                                    Len(type_arguments), Len(w.decl.type_parameters),
                                    JoinSpans(type_arguments))>>,
                            <<>>, r.trace)
            ELSE r
    IN  Checked(monomorphize_resolved(te, ns, w, type_arguments, module_path, self))

\* monomorphize_inner, (false, false): type parameters and type arguments
monomorphize_with_arguments(te, ns, w, type_arguments, module_path, self) ==
    IF Len(w.decl.type_parameters) # Len(type_arguments)
    THEN MonoResult(te, ns, FALSE, NoDecl, <<>>,
                    <<Error("IncorrectNumberOfTypeArguments", "", "", Len(type_arguments),
                            Len(w.decl.type_parameters), JoinSpans(type_arguments))>>,
                    <<>>, <<>>)
    ELSE monomorphize_resolved(te, ns, w, type_arguments, module_path, self)

\* monomorphize_inner
monomorphize_inner(te, ns, w, type_arguments, enforce_type_arguments, call_site_span, module_path, self) ==
    CASE w.decl.type_parameters = <<>> /\ type_arguments = <<>> ->
             monomorphize_as_is(te, ns, w)
      [] w.decl.type_parameters # <<>> /\ type_arguments = <<>> ->
             monomorphize_without_arguments(te, ns, w, enforce_type_arguments,
                                            call_site_span, module_path)
      [] w.decl.type_parameters = <<>> /\ type_arguments # <<>> ->
             monomorphize_surplus_arguments(te, ns, w, type_arguments)
      [] OTHER ->
             monomorphize_with_arguments(te, ns, w, type_arguments, module_path, self)

\* the typed declarations the uses of the program refer to: a struct without type
\* parameters, a generic enum and a generic struct with two parameters
StructS == Wrapper("Struct", Decl("S", "a.sw", <<>>, <<Member("x", 0, 0)>>))

EnumOpt ==
    Wrapper("Enum", Decl("Opt", "a.sw", <<TypeParameter(1, "T")>>,
                         <<Member("Some", 1, 0), Member("None", 0, 1)>>))

StructPair ==
    Wrapper("Struct", Decl("Pair", "b.sw", <<TypeParameter(1, "T"), TypeParameter(4, "U")>>,
                           <<Member("first", 1, 0), Member("second", 4, 0)>>))

\* they are there once the annotations of the program are interned
MonoDeclInputs(te) ==
    IF Len(te) < Len(Annotations) THEN {} ELSE {StructS, EnumOpt, StructPair}

ArgSpan(i) == Span("use.sw", 10 * i, 10 * i + 1)

\* the type arguments a use writes, each with the span of its position
TypeArguments(ids) == [i \in 1 .. Len(ids) |-> TypeArgument(ids[i], ArgSpan(i))]

Use(w, ids, enforce_type_arguments, call_site_span, module_path) ==
    [w |-> w,
     type_arguments |-> TypeArguments(ids),
     enforce_type_arguments |-> enforce_type_arguments,
     call_site_span |-> call_site_span,
     module_path |-> module_path]

\* the uses outside impl blocks: without type arguments, with u64, and with u64 and
\* the unknown name X; from the module lib or from a path no module has
UseInputs ==
    {Use(StructS, <<>>, "Yes", FALSE, "lib"),
     Use(StructS, <<>>, "No", TRUE, MissingModule),
     Use(StructS, <<0>>, "Yes", TRUE, "lib"),
     Use(StructS, <<0, 5>>, "No", FALSE, "lib"),
     Use(EnumOpt, <<>>, "Yes", TRUE, "lib"),
     Use(EnumOpt, <<>>, "Yes", FALSE, "lib"),
     Use(EnumOpt, <<>>, "No", FALSE, "lib"),
     Use(EnumOpt, <<>>, "No", TRUE, MissingModule),
     Use(EnumOpt, <<0>>, "Yes", TRUE, "lib"),
     Use(EnumOpt, <<0>>, "Yes", TRUE, MissingModule),
     Use(EnumOpt, <<0, 5>>, "Yes", TRUE, "lib"),
     Use(StructPair, <<0>>, "Yes", TRUE, "lib"),
     Use(StructPair, <<0, 5>>, "Yes", TRUE, "lib")}

\* the uses inside an impl block for u64, where Self can be written; X is a name that
\* does not resolve
SelfUseInputs ==
    {Use(StructS, <<>>, "No", FALSE, "lib"),
     Use(StructS, <<6>>, "Yes", TRUE, "lib"),
     Use(EnumOpt, <<>>, "Yes", TRUE, "lib"),
     Use(EnumOpt, <<6>>, "Yes", TRUE, "lib"),
     Use(StructPair, <<6>>, "Yes", TRUE, "lib"),
     Use(StructPair, <<6, 5>>, "Yes", TRUE, "lib")}

\* the window of the last two instantiations
Remember(window, e) ==
    IF Len(window) < 2 THEN Append(window, e) ELSE <<window[2], e>>

Instantiation(w, type_arguments, value, type_id) ==
    [w |-> w, type_arguments |-> type_arguments, value |-> value, type_id |-> type_id]

\* Monomorphize::monomorphize_with_self / monomorphize_without_self
monomorphize(op, self, uses) ==
    \E use \in {u \in uses : u.w \in MonoDeclInputs(types)} :
        LET w == use.w
            type_arguments == use.type_arguments
            enforce_type_arguments == use.enforce_type_arguments
            call_site_span == use.call_site_span
            module_path == use.module_path
            arg == [NoArg EXCEPT !.kind = w.kind, !.decl = w.decl,
                                 !.type_arguments = type_arguments,
                                 !.enforce_type_arguments = enforce_type_arguments,
                                 !.call_site_span = call_site_span,
                                 !.module_path = module_path,
                                 !.self_type = self.self_type]
            Returned(r) ==
                /\ Len(r.te) <= MaxTypes
                /\ types' = r.te
                /\ modules' = r.ns
                /\ ret' = RetMono(op, arg, -1, r.some, r.value, r.warnings, r.errors,
                                  r.mapping, r.trace)
                /\ insts' = IF r.some /\ r.trace # <<>>
                            THEN Remember(insts,
                                          Instantiation(w, type_arguments, r.value,
                                                        r.trace[Len(r.trace)].b))
                            ELSE insts
                /\ UNCHANGED <<slab, decls, threads, implemented_traits, symbols, scope, typed_nodes, service, functions, panicked>>
        IN  Returned(monomorphize_inner(types, modules, w, type_arguments,
                                        enforce_type_arguments, call_site_span, module_path,
                                        SelfArg(self.with, self.self_type,
                                                enforce_type_arguments)))

monomorphize_without_self ==
    monomorphize("monomorphize_without_self", SelfArg(FALSE, -1, ""), UseInputs)

monomorphize_with_self ==
    monomorphize("monomorphize_with_self", SelfArg(TRUE, 0, ""), SelfUseInputs)

\* the declarations the impl blocks of the program name: the generic enum and the
\* latest instantiation
ImplTargets(te) ==
    (MonoDeclInputs(te) \cap {EnumOpt})
    \cup {Wrapper(insts[i].w.kind, insts[i].value) : i \in {Len(insts)} \ {0}}

\* Items::insert_trait_implementation: an impl block registers a method for a type
insert_trait_implementation ==
    \E module_path \in ModulePaths, w \in ImplTargets(types) :
        LET Registered(r) ==
                /\ Len(r.te) <= MaxTypes
                /\ types' = r.te
                /\ modules' = [modules EXCEPT ![module_path] =
                                  @ \cup {TraitEntry(look_up_type_id(r.te, r.id), "Tr", "m")}]
                /\ ret' = Ret("insert_trait_implementation",
                              [NoArg EXCEPT !.kind = w.kind, !.decl = w.decl,
                                            !.module_path = module_path],
                              r.id, FALSE, NoDecl, <<>>, <<>>)
                /\ UNCHANGED <<slab, decls, insts, threads, implemented_traits, symbols, scope, typed_nodes, service, functions, panicked>>
        IN  Registered(create_type_id(types, w))

(***************************************************************************)
(* Method resolver                                                         *)
(***************************************************************************)
\* an impl block: the trait it implements with the trait's type arguments; an impl
\* Self block has no trait_decl_ref
ImplSelfOrTrait(trait_name, trait_type_arguments, is_impl_self) ==
    [trait_name |-> trait_name, trait_type_arguments |-> trait_type_arguments,
     is_impl_self |-> is_impl_self]

\* a method: its name, parameter types, return type and the impl block it is part of
FunctionDeclaration(name, parameters, return_type, implementing_type) ==
    [name |-> name, parameters |-> parameters, return_type |-> return_type,
     implementing_type |-> implementing_type]

\* the impl blocks the program has for the receiver type S, by ParsedDeclId
ImplBlocks ==
    <<ImplSelfOrTrait("A", <<>>, FALSE),
      ImplSelfOrTrait("B", <<>>, FALSE),
      ImplSelfOrTrait("Self", <<>>, TRUE),
      ImplSelfOrTrait("D", <<"bool">>, FALSE),
      ImplSelfOrTrait("D", <<"u64">>, FALSE)>>

\* the methods of those blocks, by ParsedDeclId
Functions ==
    <<FunctionDeclaration("foo", <<"S">>, "u64", 1),
      FunctionDeclaration("bar", <<"S", "u64">>, "bool", 1),
      FunctionDeclaration("foo", <<"S">>, "u64", 2),
      FunctionDeclaration("foo", <<"S">>, "u64", 3),
      FunctionDeclaration("foo", <<"S">>, "bool", 4),
      FunctionDeclaration("foo", <<"S">>, "u64", 5)>>

\* the methods of the registered impl blocks, in the order of registration
RECURSIVE ItemsOf(_)
ItemsOf(impls) ==
    IF impls = <<>>
    THEN <<>>
    ELSE SelectSeq([i \in 1 .. Len(Functions) |-> i],
                   LAMBDA f : Functions[f].implementing_type = Head(impls))
             \o ItemsOf(Tail(impls))

\* Items::get_items_for_type: only S has impl blocks
get_items_for_type(implemented, type_id) ==
    IF type_id = "S" THEN ItemsOf(implemented) ELSE <<>>

\* find_items_for_type: the items of the local module, then those of the module that
\* declares the type (the method prefix is the current module), of the given name
find_items_for_type(implemented, type_id, item_name) ==
    IF type_id = "ErrorRecovery"
    THEN [ok |-> FALSE, items |-> <<>>]
    ELSE [ok |-> TRUE,
          items |-> SelectSeq(get_items_for_type(implemented, type_id)
                                  \o get_items_for_type(implemented, type_id),
                              LAMBDA f : Functions[f].name = item_name)]

\* UnifyCheck::coercion: equal types, or a numeric literal against u64
coercion_check(left, right) ==
    \/ left = right
    \/ left = "u64" /\ right = "Numeric"
    \/ left = "Numeric" /\ right = "u64"

\* the filter on arity, parameter types and return type
passes_filter(f, annotation_type, arguments_types) ==
    /\ Len(Functions[f].parameters) = Len(arguments_types)
    /\ \A i \in 1 .. Len(arguments_types) :
           coercion_check(Functions[f].parameters[i], arguments_types[i])
    /\ \/ annotation_type = "Unknown"
       \/ coercion_check(annotation_type, Functions[f].return_type)

\* the qualifier of <S as Trait<args>>::method, and its absence
AsTrait(name, type_arguments, has_type_arguments) ==
    [some |-> TRUE, name |-> name, type_arguments |-> type_arguments,
     has_type_arguments |-> has_type_arguments]

NoTrait == [some |-> FALSE, name |-> "", type_arguments |-> <<>>, has_type_arguments |-> FALSE]

\* the key of trait_methods: trait name and trait type arguments
TraitKey(impl) == <<ImplBlocks[impl].trait_name>> \o ImplBlocks[impl].trait_type_arguments

\* HashMap::insert on trait_methods, kept in first-insertion order of the keys
trait_methods_insert(trait_methods, key, method_ref) ==
    IF \E i \in 1 .. Len(trait_methods) : trait_methods[i].key = key
    THEN [i \in 1 .. Len(trait_methods) |->
             IF trait_methods[i].key = key
             THEN [key |-> key, method |-> method_ref]
             ELSE trait_methods[i]]
    ELSE Append(trait_methods, [key |-> key, method |-> method_ref])

\* whether the loop over the matching methods inserts the method under its trait
inserts_method(impl, as_trait) ==
    IF as_trait.some
    THEN /\ ImplBlocks[impl].trait_name = as_trait.name
         /\ \/ ~as_trait.has_type_arguments
            \/ as_trait.type_arguments = ImplBlocks[impl].trait_type_arguments
    ELSE TRUE

\* the loop over maybe_method_decl_refs: trait_methods and impl_self_method (0: None)
RECURSIVE collect_methods(_, _, _, _)
collect_methods(maybe_method_decl_refs, as_trait, trait_methods, impl_self_method) ==
    IF maybe_method_decl_refs = <<>>
    THEN [trait_methods |-> trait_methods, impl_self_method |-> impl_self_method]
    ELSE LET method_ref == Head(maybe_method_decl_refs)
             impl == Functions[method_ref].implementing_type
         IN  collect_methods(Tail(maybe_method_decl_refs), as_trait,
                             IF inserts_method(impl, as_trait)
                             THEN trait_methods_insert(trait_methods, TraitKey(impl), method_ref)
                             ELSE trait_methods,
                             IF ImplBlocks[impl].is_impl_self
                             THEN method_ref
                             ELSE impl_self_method)

\* the tokens of the trait strings in the order of String's Ord
Lexicon == <<"A", "B", "D", "Self", "bool", "u64">>

Rank(token) == CHOOSE i \in 1 .. Len(Lexicon) : Lexicon[i] = token

\* a < b on trait strings, compared token by token
RECURSIVE StringLess(_, _)
StringLess(a, b) ==
    IF a = <<>> THEN b # <<>>
    ELSE IF b = <<>> THEN FALSE
    ELSE IF Head(a) = Head(b) THEN StringLess(Tail(a), Tail(b))
    ELSE Rank(Head(a)) < Rank(Head(b))

\* the trait strings left in the order the keys were found
sort_skipped(trait_strings) == trait_strings

\* trait_strings.sort()
sort(trait_strings) == SortSeq(trait_strings, StringLess)

\* one lookup pass: Ok(method), Err(error) or no method (None)
PassResult(outcome, method, errors, qualified) ==
    [outcome |-> outcome, method |-> method, errors |-> errors, qualified |-> qualified]

\* a choice that takes the first method that passes the filter, whatever its impl block
choose_first(call, maybe_method_decl_refs) ==
    PassResult("ok", Head(maybe_method_decl_refs), <<>>, FALSE)

\* the choice among the methods that pass the filter
choose_method(call, maybe_method_decl_refs) ==
    LET c == collect_methods(maybe_method_decl_refs, call.as_trait, <<>>, 0)
        n == Len(c.trait_methods)
    IN  IF n = 1
        THEN PassResult("ok", c.trait_methods[1].method, <<>>, call.as_trait.some)
        ELSE IF n > 1
        THEN IF c.impl_self_method # 0
             THEN PassResult("ok", c.impl_self_method, <<>>, call.as_trait.some)
             ELSE PassResult("err", 0,
                             <<Error("MultipleApplicableItemsInScope", call.method_name,
                                     call.type_id,
                                     sort([i \in 1 .. n |-> c.trait_methods[i].key]),
                                     0, NoSpan)>>,
                             call.as_trait.some)
        ELSE IF call.as_trait.some
        THEN PassResult("none", 0, <<>>, TRUE)
        ELSE PassResult("ok", Head(maybe_method_decl_refs), <<>>, FALSE)

\* a pass that takes the first method of the name without the filter
lookup_pass_unfiltered(implemented, call) ==
    LET found == find_items_for_type(implemented, call.type_id, call.method_name)
    IN  IF ~found.ok
        THEN PassResult("err", 0, <<Error("ErrorRecovery", "", call.type_id, 0, 0, NoSpan)>>,
                        FALSE)
        ELSE IF found.items # <<>>
        THEN PassResult("ok", Head(found.items), <<>>, FALSE)
        ELSE PassResult("none", 0, <<>>, FALSE)

\* find_method_for_type up to the choice of matching_method_decl_ref
lookup_pass(implemented, call) ==
    LET found == find_items_for_type(implemented, call.type_id, call.method_name)
        maybe_method_decl_refs ==
            SelectSeq(found.items,
                      LAMBDA f : passes_filter(f, call.annotation_type, call.arguments_types))
    IN  IF ~found.ok
        THEN PassResult("err", 0, <<Error("ErrorRecovery", "", call.type_id, 0, 0, NoSpan)>>,
                        FALSE)
        ELSE IF maybe_method_decl_refs # <<>>
        THEN choose_method(call, maybe_method_decl_refs)
        ELSE IF found.items # <<>>
        THEN PassResult("ok", Head(found.items), <<>>, FALSE)
        ELSE PassResult("none", 0, <<>>, FALSE)

\* TraitMap::insert_for_type: every impl block of the type that is not registered yet
insert_for_type(implemented, type_id) ==
    IF type_id = "S"
    THEN implemented \o SelectSeq([i \in 1 .. Len(ImplBlocks) |-> i],
                                  LAMBDA b : \A j \in 1 .. Len(implemented) : implemented[j] # b)
    ELSE implemented

\* what a call of find_method_for_type leaves: the namespace, the method or the error,
\* and the passes and registrations made, in order
Found(implemented, ok, method, errors, trace) ==
    [implemented |-> implemented, ok |-> ok, method |-> method, errors |-> errors,
     trace |-> trace]

\* a resolver that reports MethodNotFound without the lazy registration
find_method_without_retry(implemented, call, try_inserting, trace) ==
    LET Decide(r) ==
            IF r.outcome = "ok"
            THEN Found(implemented, TRUE, r.method, <<>>, Append(trace, Event("lookup", 1, try_inserting)))
            ELSE Found(implemented, FALSE, 0,
                       <<Error("MethodNotFound", call.method_name,
                               IF r.qualified THEN <<call.type_id, call.as_trait.name>>
                               ELSE <<call.type_id>>, 0, 0, NoSpan)>>,
                       Append(trace, Event("lookup", 0, try_inserting)))
    IN  Decide(lookup_pass(implemented, call))

\* find_method_for_type
RECURSIVE find_method(_, _, _, _)
find_method(implemented, call, try_inserting, trace) ==
    LET Decide(r) ==
            LET passed == Append(trace, Event("lookup", IF r.outcome = "none" THEN 0 ELSE 1,
                                              try_inserting))
            IN  IF r.outcome = "ok"
                THEN Found(implemented, TRUE, r.method, <<>>, passed)
                ELSE IF r.outcome = "err"
                THEN Found(implemented, FALSE, 0, r.errors, passed)
                ELSE IF call.arguments_types # <<>>
                        /\ Head(call.arguments_types) = "ErrorRecovery"
                THEN Found(implemented, FALSE, 0,
                           <<Error("ErrorRecovery", "", "ErrorRecovery", 0, 0, NoSpan)>>, passed)
                ELSE IF try_inserting = "Yes"
                THEN find_method(insert_for_type(implemented, call.type_id), call, "No",
                                 Append(passed, Event("register", call.type_id, 0)))
                ELSE Found(implemented, FALSE, 0,
                           <<Error("MethodNotFound", call.method_name,
                                   IF r.qualified THEN <<call.type_id, call.as_trait.name>>
                                   ELSE <<call.type_id>>, 0, 0, NoSpan)>>,
                           passed)
    IN  Decide(lookup_pass(implemented, call))

\* the arguments of a call
Call(type_id, method_name, annotation_type, arguments_types, as_trait, try_inserting) ==
    [type_id |-> type_id, method_name |-> method_name, annotation_type |-> annotation_type,
     arguments_types |-> arguments_types, as_trait |-> as_trait,
     try_inserting_trait_impl_on_failure |-> try_inserting]

\* the method calls of the program: by name, annotation, arguments and qualifier
CallInputs ==
    {Call("S", "foo", "Unknown", <<"S">>, NoTrait, t) : t \in {"Yes", "No"}}
    \cup {Call("S", "foo", "u64", <<"S">>, NoTrait, "Yes"),
          Call("S", "foo", "bool", <<"S">>, NoTrait, "Yes"),
          Call("S", "bar", "Unknown", <<"S", "u64">>, NoTrait, "Yes"),
          Call("S", "bar", "Unknown", <<"S">>, NoTrait, "Yes"),
          Call("S", "bar", "u64", <<"S", "Numeric">>, NoTrait, "No"),
          Call("S", "baz", "Unknown", <<"S">>, NoTrait, "Yes"),
          Call("S", "baz", "Unknown", <<"S">>, NoTrait, "No"),
          Call("S", "baz", "Unknown", <<"ErrorRecovery">>, NoTrait, "Yes"),
          Call("S", "baz", "Unknown", <<>>, NoTrait, "Yes"),
          Call("ErrorRecovery", "foo", "Unknown", <<"ErrorRecovery">>, NoTrait, "Yes"),
          Call("S", "foo", "Unknown", <<"S">>, AsTrait("A", <<>>, FALSE), "Yes"),
          Call("S", "foo", "Unknown", <<"S">>, AsTrait("A", <<>>, FALSE), "No"),
          Call("S", "foo", "Unknown", <<"S">>, AsTrait("D", <<"bool">>, TRUE), "No"),
          Call("S", "foo", "Unknown", <<"S">>, AsTrait("D", <<>>, FALSE), "No"),
          Call("S", "foo", "Unknown", <<"S">>, AsTrait("Z", <<>>, FALSE), "No"),
          Call("S", "foo", "Unknown", <<"S">>, AsTrait("Z", <<>>, FALSE), "Yes")}

\* an impl block of S is type-checked and registered in the namespace
insert_trait_implementation_of_block ==
    \E b \in 1 .. Len(ImplBlocks) :
        /\ \A j \in 1 .. Len(implemented_traits) : implemented_traits[j] # b
        /\ implemented_traits' = Append(implemented_traits, b)
        /\ ret' = Ret("insert_trait_implementation", [NoArg EXCEPT !.id = b], -1, FALSE,
                      NoDecl, <<>>, <<>>)
        /\ UNCHANGED <<slab, decls, types, modules, insts, threads, symbols, scope, typed_nodes, service, functions, panicked>>

\* SymbolResolveContext::insert_trait_implementation_for_type, for the receiver type
insert_trait_implementation_for_type ==
    /\ implemented_traits' = insert_for_type(implemented_traits, "S")
    /\ ret' = Ret("insert_trait_implementation_for_type", NoArg, -1, FALSE, NoDecl, <<>>, <<>>)
    /\ UNCHANGED <<slab, decls, types, modules, insts, threads, symbols, scope, typed_nodes, service, functions, panicked>>

\* SymbolResolveContext::find_method_for_type, called by the checker of a method call
find_method_for_type ==
    \E call \in CallInputs :
        LET Returned(r) ==
                /\ implemented_traits' = r.implemented
                /\ ret' = RetMono("find_method_for_type", call, r.method, r.ok, NoDecl, <<>>,
                                  r.errors, implemented_traits, r.trace)
        IN  /\ Returned(find_method(implemented_traits, call,
                                    call.try_inserting_trait_impl_on_failure, <<>>))
            /\ UNCHANGED <<slab, decls, types, modules, insts, threads, symbols, scope, typed_nodes, service, functions, panicked>>

(***************************************************************************)
(* Type checking of an enum declaration                                    *)
(***************************************************************************)
\* what a CompileResult carries besides its value: whether there is a value, the
\* warnings and the errors
CompileResult(ok, warnings, errors) == [ok |-> ok, warnings |-> warnings, errors |-> errors]

\* a diagnostic raised while a part of a declaration is checked
Diagnostic(kind, part) == [kind |-> kind, part |-> part]

\* how the resolution of an annotated type can end
ResolveKinds == {"ok", "warning", "error", "warning_and_error"}

\* Namespace::resolve_type_with_self on the type of the part: the diagnostics name it
resolve_type_outcome(part, kind) ==
    CompileResult(kind \in {"ok", "warning"},
                  IF kind \in {"warning", "warning_and_error"}
                  THEN <<Diagnostic("Warning", part)>> ELSE <<>>,
                  IF kind \in {"error", "warning_and_error"}
                  THEN <<Diagnostic("UnknownType", part)>> ELSE <<>>)

\* the check! macro: the diagnostics of the result are appended to those collected
check(res, warnings, errors) ==
    CompileResult(res.ok, warnings \o res.warnings, errors \o res.errors)

\* TypedEnumVariant::type_check of the i-th variant
enum_variant_type_check(i, kind) ==
    LET Checked(c) == CompileResult(TRUE, <<>>, c.errors)
    IN  Checked(check(resolve_type_outcome(i, kind), <<>>, <<>>))

\* the loop of TypedEnumDeclaration::type_check over the variants from the i-th on
RECURSIVE enum_variants_type_check(_, _, _, _)
enum_variants_type_check(variants, i, warnings, errors) ==
    IF i > Len(variants)
    THEN CompileResult(TRUE, warnings, errors)
    ELSE LET Next(c) == enum_variants_type_check(variants, i + 1, c.warnings, c.errors)
         IN  Next(check(enum_variant_type_check(i, variants[i]), warnings, errors))

\* TypedEnumDeclaration::type_check: the type parameters, then the variants
enum_declaration_type_check(type_parameters, variants) ==
    LET Parameters(c) ==
            IF ~c.ok
            THEN CompileResult(FALSE, c.warnings, c.errors)
            ELSE enum_variants_type_check(variants, 1, c.warnings, c.errors)
    IN  Parameters(check(resolve_type_outcome(0, type_parameters), <<>>, <<>>))

\* the enum declarations of the program: up to MaxVariants variants, each with the way
\* the resolution of its type ends
RECURSIVE VariantInputs(_)
VariantInputs(n) ==
    IF n = 0
    THEN {<<>>}
    ELSE VariantInputs(n - 1)
             \cup {Append(v, k) : v \in {w \in VariantInputs(n - 1) : Len(w) = n - 1},
                                  k \in ResolveKinds}

\* an enum declaration is type-checked
type_check_enum_declaration ==
    \E type_parameters \in {"ok", "error"}, variants \in VariantInputs(MaxVariants) :
        LET Returned(c) ==
                ret' = Ret("enum_declaration_type_check",
                           [NoArg EXCEPT !.kind = type_parameters, !.type_arguments = variants],
                           -1, c.ok, NoDecl, c.warnings, c.errors)
        IN  /\ Returned(enum_declaration_type_check(type_parameters, variants))
            /\ UNCHANGED <<slab, decls, types, modules, insts, threads, implemented_traits, symbols, scope, typed_nodes, service, functions, panicked>>

(***************************************************************************)
(* Namespace: the module tree, the symbol tables and the resolution of     *)
(* call paths                                                              *)
(***************************************************************************)
\* the modules of the program by their absolute path, each with its visibility
Submodules ==
    {[path |-> <<>>,              visibility |-> "Public"],
     [path |-> <<"a">>,           visibility |-> "Public"],
     [path |-> <<"a", "b">>,      visibility |-> "Public"],
     [path |-> <<"a", "b", "c">>, visibility |-> "Private"],
     [path |-> <<"a", "b", "d">>, visibility |-> "Public"],
     [path |-> <<"b">>,           visibility |-> "Public"],
     [path |-> <<"b", "c">>,      visibility |-> "Public"]}

\* an entry of a module's symbol table: the name and the declaration it stands for
Symbol(module, name, kind, visibility) == [module |-> module, name |-> name, kind |-> kind, visibility |-> visibility]

\* the entries of the module's symbol table under the name
SymbolsNamed(table, module, name) == {s \in table : s.module = module /\ s.name = name}

\* Namespace::insert_symbol. A variable is declared under the sequential policy: the
\* later declaration supersedes the earlier one. Under the item-style policy a name
\* already declared in the scope is a duplicate-declaration error; the tables the call
\* may leave are those where the name stands for the earlier or for the later declaration
insert_symbol(table, symbol) ==
    IF SymbolsNamed(table, symbol.module, symbol.name) = {}
    THEN [result |-> CompileResult(TRUE, <<>>, <<>>), tables |-> {table \cup {symbol}}]
    ELSE IF symbol.kind = "Variable"
    THEN [result |-> CompileResult(TRUE, <<>>, <<>>),
          tables |-> {(table \ SymbolsNamed(table, symbol.module, symbol.name)) \cup {symbol}}]
    ELSE [result |-> CompileResult(FALSE, <<>>, <<Diagnostic("DuplicateDeclaration", symbol.name)>>),
          tables |-> {table, (table \ SymbolsNamed(table, symbol.module, symbol.name)) \cup {symbol}}]

\* the kinds of declaration whose node calls insert_symbol inside check!
CheckedInsertKinds == {"Enum", "Struct"}

\* the kinds of declaration whose inner check returns err from the node when it fails
ReturnOnFailureKinds == {"Enum", "Struct", "Trait"}

\* the declaration's own type_check: of an enum, TypedEnumDeclaration::type_check of a
\* declaration with one variant; of the other kinds, its outcome
declaration_type_check(node) ==
    IF node.kind = "Enum"
    THEN enum_declaration_type_check(node.checked, <<"ok">>)
    ELSE resolve_type_outcome(node.name, node.checked)

\* TypedAstNode::type_check of a declaration node: what it returns and the symbol tables
\* it may leave
node_type_check(table, node) ==
    LET Inserted(c, ins) ==
            IF node.kind \in CheckedInsertKinds
            THEN [result |-> check(ins.result, c.warnings, c.errors), tables |-> ins.tables]
            ELSE [result |-> CompileResult(TRUE, c.warnings, c.errors), tables |-> ins.tables]
        Checked(c) ==
            IF ~c.ok /\ node.kind \in ReturnOnFailureKinds
            THEN [result |-> CompileResult(FALSE, c.warnings, c.errors), tables |-> {table}]
            ELSE Inserted(c, insert_symbol(table, Symbol(node.module, node.name, node.kind, node.visibility)))
    IN  Checked(check(declaration_type_check(node), <<>>, <<>>))

\* a declaration node of the program
Node(module, kind, name, visibility, checked) == [module |-> module, kind |-> kind, name |-> name, visibility |-> visibility, checked |-> checked]

\* the declaration nodes of the program
NodeInputs ==
    {Node(<<>>, "Function", "f", "Private", "ok"),
     Node(<<>>, "Function", "f", "Private", "error"),
     Node(<<>>, "Enum", "f", "Public", "ok"),
     Node(<<>>, "Enum", "f", "Public", "error"),
     Node(<<>>, "Struct", "f", "Public", "ok"),
     Node(<<>>, "Trait", "T", "Public", "ok"),
     Node(<<>>, "Trait", "T", "Public", "error"),
     Node(<<>>, "Abi", "T", "Public", "ok"),
     Node(<<"a", "b">>, "Enum", "sym", "Private", "ok"),
     Node(<<"a", "b", "c">>, "Function", "sym", "Private", "ok"),
     Node(<<"a", "b", "c">>, "Struct", "sym", "Public", "ok"),
     Node(<<"a", "b", "d">>, "Function", "sym", "Private", "ok"),
     Node(<<"b", "c">>, "Function", "sym", "Public", "ok")}

\* a declaration node is type-checked
type_check_node ==
    \E node \in NodeInputs :
        LET Returned(r) ==
                /\ symbols' \in r.tables
                /\ ret' = RetMono("node_type_check", [NoArg EXCEPT !.kind = node.kind, !.decl = node],
                                  -1, r.result.ok, NoDecl, r.result.warnings, r.result.errors,
                                  symbols, <<>>)
        IN  /\ Returned(node_type_check(symbols, node))
            /\ UNCHANGED <<slab, decls, types, modules, insts, threads, implemented_traits, scope, typed_nodes, service, functions, panicked>>

\* whether the path names a module of the program
IsModule(path) == \E m \in Submodules : m.path = path

\* the module at the absolute path
ModuleAt(path) == CHOOSE m \in Submodules : m.path = path

\* what a resolution answers: the declaration found, if any, the module path in which
\* it was found and the errors emitted
Resolution(ok, decl, mod_path, errors) == [ok |-> ok, decl |-> decl, mod_path |-> mod_path, errors |-> errors]

\* Root::resolve_call_path_and_mod_path: the suffix is looked up in the module at
\* mod_path followed by the prefixes of the call path
resolve_call_path_and_mod_path(table, mod_path, call_path) ==
    LET Resolve(symbol_path) ==
            IF ~IsModule(symbol_path)
            THEN Resolution(FALSE, NoDecl, <<>>, <<Diagnostic("ModuleNotFound", symbol_path)>>)
            ELSE IF SymbolsNamed(table, symbol_path, call_path.suffix) = {}
            THEN Resolution(FALSE, NoDecl, <<>>, <<Diagnostic("SymbolNotFound", call_path.suffix)>>)
            ELSE Resolution(TRUE, CHOOSE s \in SymbolsNamed(table, symbol_path, call_path.suffix) : TRUE,
                            symbol_path, <<>>)
    IN  Resolve(mod_path \o call_path.prefixes)

\* Namespace::lookup_submodule_from_absolute_path
lookup_submodule_from_absolute_path(path) ==
    IF IsModule(path)
    THEN [ok |-> TRUE, module |-> ModuleAt(path), errors |-> <<>>]
    ELSE [ok |-> FALSE, module |-> ModuleAt(<<>>), errors |-> <<Diagnostic("ModuleNotFound", path)>>]

\* the loop over iter_prefixes(prefixes).skip(1), from the prefix of length n on
RECURSIVE check_prefixes(_, _, _)
check_prefixes(prefixes, n, errors) ==
    IF n > Len(prefixes)
    THEN [ok |-> TRUE, errors |-> errors]
    ELSE LET Looked(l) ==
                 IF ~l.ok
                 THEN [ok |-> FALSE, errors |-> errors \o l.errors]
                 ELSE check_prefixes(prefixes, n + 1,
                                     IF l.module.visibility = "Private"
                                     THEN Append(errors, Diagnostic("ImportPrivateModule", prefixes[n]))
                                     ELSE errors)
         IN  Looked(lookup_submodule_from_absolute_path(SubSeq(prefixes, 1, n)))

\* SymbolResolveContext::resolve_call_path_with_visibility_check_and_modpath
resolve_call_path_with_visibility_check_and_modpath(table, mod_path, call_path) ==
    LET Visible(r, p) ==
            IF ~p.ok
            THEN Resolution(FALSE, NoDecl, r.mod_path, p.errors)
            ELSE Resolution(TRUE, r.decl, r.mod_path,
                            IF r.decl.visibility # "Public"
                            THEN Append(p.errors, Diagnostic("ImportPrivateSymbol", call_path.suffix))
                            ELSE p.errors)
        Resolved(r) ==
            IF ~r.ok \/ r.mod_path = <<>> \/ call_path.prefixes = <<>>
            THEN r
            ELSE Visible(r, check_prefixes(call_path.prefixes, 2, <<>>))
    IN  Resolved(resolve_call_path_and_mod_path(table, mod_path, call_path))

\* a call path
CallPath(prefixes, suffix) == [prefixes |-> prefixes, suffix |-> suffix]

\* the resolutions the program asks for: the requesting module and the call path
PathInputs ==
    {<<<<>>, CallPath(<<>>, "f")>>,
     <<<<"a", "b", "c">>, CallPath(<<>>, "sym")>>,
     <<<<>>, CallPath(<<"a", "b">>, "sym")>>,
     <<<<>>, CallPath(<<"a", "b", "c">>, "sym")>>,
     <<<<>>, CallPath(<<"a", "b", "d">>, "sym")>>,
     <<<<>>, CallPath(<<"b", "c">>, "sym")>>,
     <<<<>>, CallPath(<<"a", "x">>, "sym")>>,
     <<<<"a">>, CallPath(<<"b">>, "sym")>>,
     <<<<"a">>, CallPath(<<"b", "c">>, "sym")>>,
     <<<<"a">>, CallPath(<<"b", "d">>, "sym")>>,
     <<<<"b">>, CallPath(<<"c">>, "sym")>>}

\* a call path is resolved from a module
resolve_call_path ==
    \E p \in PathInputs :
        LET Returned(r) ==
                ret' = RetMono("resolve_call_path", [NoArg EXCEPT !.decl = p[2]],
                               -1, r.ok, r.decl, <<>>, r.errors, symbols, p[1])
        IN  /\ Returned(resolve_call_path_with_visibility_check_and_modpath(symbols, p[1], p[2]))
            /\ UNCHANGED <<slab, decls, types, modules, insts, threads, implemented_traits, symbols, scope, typed_nodes, service, functions, panicked>>

(***************************************************************************)
(* Type checking of the nodes of a block: variable declarations and        *)
(* expressions                                                             *)
(***************************************************************************)
\* an expression of the parse tree: a literal or the name of a variable
Expression(kind, name, value) == [kind |-> kind, name |-> name, value |-> value]

\* a typed expression; a variable expression holds the declaration it resolved to
TypedExpression(kind, name, value, decl) == [kind |-> kind, name |-> name, value |-> value, decl |-> decl]

\* the declaration held by an expression that names no variable
NoVariable == [name |-> "", body |-> "", type_ascription |-> ""]

error_recovery_expr == TypedExpression("ErrorRecovery", "", 0, NoVariable)

TypedVariableDeclaration(name, body, type_ascription) == [name |-> name, body |-> body, type_ascription |-> type_ascription]

\* the entry of the scope's symbol table for a variable
ScopeEntry(decl) == [module |-> <<>>, name |-> decl.name, kind |-> "Variable", decl |-> decl]

\* TypedExpression::type_check of a literal or a variable expression in the scope
expression_type_check(table, expr) ==
    IF expr.kind = "Literal"
    THEN [result |-> CompileResult(TRUE, <<>>, <<>>),
          value |-> TypedExpression("Literal", "", expr.value, NoVariable)]
    ELSE IF SymbolsNamed(table, <<>>, expr.name) = {}
    THEN [result |-> CompileResult(FALSE, <<>>, <<Diagnostic("UnknownVariable", expr.name)>>),
          value |-> error_recovery_expr]
    ELSE [result |-> CompileResult(TRUE, <<>>, <<>>),
          value |-> TypedExpression("VariableExpression", expr.name, 0,
                                    (CHOOSE s \in SymbolsNamed(table, <<>>, expr.name) : TRUE).decl)]

\* a node of a block: a variable declaration (name, ascribed type, body) or an expression
Statement(kind, name, ascription, body) == [kind |-> kind, name |-> name, ascription |-> ascription, body |-> body]

\* the type a resolution leaves: the ascribed type or the error-recovery type
ascribed_type(c) == IF c.ok THEN "u64" ELSE "ErrorRecovery"

\* a scope that keeps the first binding of a name
declare_variable_once(table, decl) == IF SymbolsNamed(table, <<>>, decl.name) = {} THEN {table \cup {ScopeEntry(decl)}} ELSE {table}

\* namespace.insert_symbol(name, typed_var_decl.clone()), its result discarded
declare_variable(table, decl) == insert_symbol(table, ScopeEntry(decl)).tables

\* the Declaration::VariableDeclaration arm of TypedAstNode::type_check
variable_declaration_type_check(table, stmt) ==
    LET Declared(a, b, decl) ==
            [result |-> CompileResult(TRUE, a.warnings \o b.result.warnings, a.errors \o b.result.errors),
             node |-> decl,
             tables |-> declare_variable(table, decl)]
        Body(a, b) ==
            Declared(a, b, TypedVariableDeclaration(stmt.name, b.value, ascribed_type(a)))
        Ascribed(a) == Body(a, expression_type_check(table, stmt.body))
    IN  Ascribed(check(resolve_type_outcome(stmt.name, stmt.ascription), <<>>, <<>>))

\* the AstNodeContent::Expression arm of TypedAstNode::type_check
expression_node_type_check(table, stmt) ==
    LET Checked(b) == [result |-> CompileResult(TRUE, b.result.warnings, b.result.errors),
                       node |-> b.value,
                       tables |-> {table}]
    IN  Checked(expression_type_check(table, stmt.body))

\* TypedAstNode::type_check of a node of a block
block_node_type_check(table, stmt) ==
    IF stmt.kind = "VariableDeclaration"
    THEN variable_declaration_type_check(table, stmt)
    ELSE expression_node_type_check(table, stmt)

\* the nodes of the blocks of the program
BlockInputs ==
    {Statement("VariableDeclaration", "x", "ok", Expression("Literal", "", 1)),
     Statement("VariableDeclaration", "x", "ok", Expression("Literal", "", 2)),
     Statement("VariableDeclaration", "x", "error", Expression("Literal", "", 1)),
     Statement("VariableDeclaration", "x", "ok", Expression("VariableExpression", "x", 0)),
     Statement("VariableDeclaration", "y", "ok", Expression("VariableExpression", "x", 0)),
     Statement("VariableDeclaration", "x", "ok", Expression("VariableExpression", "y", 0)),
     Statement("Expression", "", "ok", Expression("VariableExpression", "x", 0))}

\* the next node of the block is type-checked
type_check_block_node ==
    /\ Len(typed_nodes) < MaxNodes
    /\ \E stmt \in BlockInputs :
           LET Returned(r) ==
                   /\ scope' \in r.tables
                   /\ typed_nodes' = Append(typed_nodes, r.node)
                   /\ ret' = Ret("block_node_type_check",
                                 [NoArg EXCEPT !.kind = stmt.kind, !.decl = stmt],
                                 Len(typed_nodes) + 1, r.result.ok, NoDecl,
                                 r.result.warnings, r.result.errors)
           IN  /\ Returned(block_node_type_check(scope, stmt))
               /\ UNCHANGED <<slab, decls, types, modules, insts, threads, implemented_traits, symbols, service, functions, panicked>>

(***************************************************************************)
(* Type checking of struct declarations and function parameters            *)
(***************************************************************************)
TypedStructField(name, type) == [name |-> name, type |-> type]

\* a field checker that gives up on a type that does not resolve
struct_field_type_check_or_fail(i, kind) ==
    LET Checked(c) == [result |-> CompileResult(c.ok, c.warnings, c.errors),
                       value |-> TypedStructField(i, ascribed_type(c))]
    IN  Checked(check(resolve_type_outcome(i, kind), <<>>, <<>>))

\* TypedStructField::type_check of the i-th field
struct_field_type_check(i, kind) ==
    LET Checked(c) == [result |-> CompileResult(TRUE, c.warnings, c.errors),
                       value |-> TypedStructField(i, ascribed_type(c))]
    IN  Checked(check(resolve_type_outcome(i, kind), <<>>, <<>>))

\* the loop of TypedStructDeclaration::type_check over the fields from the i-th on
RECURSIVE struct_fields_type_check(_, _, _, _, _)
struct_fields_type_check(fields, i, new_fields, warnings, errors) ==
    IF i > Len(fields)
    THEN [result |-> CompileResult(TRUE, warnings, errors), fields |-> new_fields]
    ELSE LET Next(f, c) ==
                 IF ~c.ok
                 THEN [result |-> CompileResult(FALSE, c.warnings, c.errors), fields |-> <<>>]
                 ELSE struct_fields_type_check(fields, i + 1, Append(new_fields, f.value),
                                               c.warnings, c.errors)
             Field(f) == Next(f, check(f.result, warnings, errors))
         IN  Field(struct_field_type_check(i, fields[i]))

\* TypedStructDeclaration::type_check: the type parameters, then the fields
struct_declaration_type_check(type_parameters, fields) ==
    LET Parameters(c) ==
            IF ~c.ok
            THEN [result |-> CompileResult(FALSE, c.warnings, c.errors), fields |-> <<>>]
            ELSE struct_fields_type_check(fields, 1, <<>>, c.warnings, c.errors)
    IN  Parameters(check(resolve_type_outcome(0, type_parameters), <<>>, <<>>))

\* the struct declarations of the program: how the check of the type parameters ends and,
\* for each field, how the resolution of its type ends
StructInputs ==
    {<<"ok", <<>>>>,
     <<"ok", <<"ok", "ok">>>>,
     <<"ok", <<"error">>>>,
     <<"ok", <<"error", "ok">>>>,
     <<"ok", <<"ok", "warning_and_error", "ok">>>>,
     <<"ok", <<"error", "error", "warning">>>>,
     <<"error", <<"ok", "ok">>>>}

\* a struct declaration is type-checked
type_check_struct_declaration ==
    \E decl \in StructInputs :
        LET Returned(r) ==
                ret' = RetMono("struct_declaration_type_check",
                               [NoArg EXCEPT !.kind = decl[1], !.type_arguments = decl[2]],
                               -1, r.result.ok, NoDecl, r.result.warnings, r.result.errors,
                               r.fields, <<>>)
        IN  /\ Returned(struct_declaration_type_check(decl[1], decl[2]))
            /\ UNCHANGED <<slab, decls, types, modules, insts, threads, implemented_traits, symbols, scope, typed_nodes, service, functions, panicked>>

TypedFunctionParameter(name, type_id) == [name |-> name, type_id |-> type_id]

\* TypedFunctionParameter::type_check: the parameter becomes a variable of the scope
function_parameter_type_check(table, name, kind) ==
    LET Checked(c) ==
            [result |-> CompileResult(TRUE, c.warnings, c.errors),
             value |-> TypedFunctionParameter(name, ascribed_type(c)),
             tables |-> declare_variable(table,
                            TypedVariableDeclaration(name,
                                TypedExpression("FunctionParameter", "", 0, NoVariable),
                                ascribed_type(c)))]
    IN  Checked(check(resolve_type_outcome(name, kind), <<>>, <<>>))

\* a parameter of the function whose body is the block is type-checked
type_check_function_parameter ==
    /\ typed_nodes = <<>>
    /\ \E name \in {"x"}, kind \in {"ok", "error"} :
           LET Returned(r) ==
                   /\ scope' \in r.tables
                   /\ ret' = RetMono("function_parameter_type_check",
                                     [NoArg EXCEPT !.kind = kind, !.module_path = name],
                                     -1, r.result.ok, NoDecl, r.result.warnings, r.result.errors,
                                     <<r.value>>, <<>>)
           IN  /\ Returned(function_parameter_type_check(scope, name, kind))
               /\ UNCHANGED <<slab, decls, types, modules, insts, threads, implemented_traits, symbols, typed_nodes, service, functions, panicked>>

(***************************************************************************)
(* Scopes of generic declarations and impl blocks                          *)
(***************************************************************************)
\* the module whose nodes are checked
Lib == <<"lib">>

\* a generic struct or enum declaration (its type parameters and the types of its members)
\* or an impl block (its type parameters, the type it implements for, its functions)
GenericNode(kind, name, type_parameters, members) == [kind |-> kind, name |-> name, type_parameters |-> type_parameters, members |-> members]

\* TypedDeclaration::GenericTypeForFunctionScope as an entry of a symbol table
GenericSymbol(name) == Symbol(Lib, name, "GenericTypeForFunctionScope", "Private")

\* whether the name of a type resolves in the table: a primitive or a declared symbol
resolves_in(table, name) == name \in {"u64", "bool"} \/ SymbolsNamed(table, Lib, name) # {}

\* the type parameters are inserted one after the other into each table the insertions
\* before may have left
RECURSIVE declare_type_parameters(_, _, _)
declare_type_parameters(tables, type_parameters, errors) ==
    IF type_parameters = <<>>
    THEN [tables |-> tables, errors |-> errors]
    ELSE declare_type_parameters(
             UNION {insert_symbol(t, GenericSymbol(Head(type_parameters))).tables : t \in tables},
             Tail(type_parameters),
             errors \o insert_symbol(CHOOSE t \in tables : TRUE,
                                     GenericSymbol(Head(type_parameters))).result.errors)

\* the errors of the members whose type does not resolve in the child scope
RECURSIVE members_type_check(_, _, _)
members_type_check(child, members, i) ==
    IF i > Len(members)
    THEN <<>>
    ELSE (IF resolves_in(child, members[i]) THEN <<>> ELSE <<Diagnostic("UnknownType", i)>>)
             \o members_type_check(child, members, i + 1)

\* a child scope that is the enclosing namespace itself
keep_child(table, child) == child

\* let mut namespace = namespace.clone(): the child is a copy, and the enclosing
\* namespace is what it was when the child is dropped
discard_child(table, child) == table

\* TypedStructDeclaration::type_check / TypedEnumDeclaration::type_check of a generic
\* declaration: the type parameters go into the child scope, the members are checked in it
generic_declaration_type_check(table, node) ==
    LET Checked(c) ==
            [result |-> CompileResult(TRUE, <<>>,
                                      c.errors \o members_type_check(CHOOSE t \in c.tables : TRUE,
                                                                     node.members, 1)),
             tables |-> {discard_child(table, child) : child \in c.tables}]
    IN  Checked(declare_type_parameters({table}, node.type_parameters, <<>>))

\* the type an impl block implements for, as the entry of the implemented-traits table
ImplementingType(name) == TyStruct(name, <<>>, <<>>)

\* the ImplSelf arm of TypedAstNode::type_check
impl_self_type_check(table, traits, node) ==
    LET Checked(c) ==
            IF ~resolves_in(CHOOSE t \in c.tables : TRUE, node.name)
            THEN [result |-> CompileResult(FALSE, <<>>, c.errors \o <<Diagnostic("UnknownType", node.name)>>),
                  tables |-> {table}, traits |-> traits]
            ELSE [result |-> CompileResult(TRUE, <<>>, c.errors),
                  tables |-> {discard_child(table, child) : child \in c.tables},
                  traits |-> traits \cup {TraitEntry(ImplementingType(node.name), "r#Self", node.members[i]) :
                                              i \in 1 .. Len(node.members)}]
    IN  Checked(declare_type_parameters({table}, node.type_parameters, <<>>))

\* the Struct and Enum arms of TypedAstNode::type_check for a generic declaration
generic_item_type_check(table, traits, node) ==
    LET Own == Symbol(Lib, node.name, node.kind, "Public")
        Inserted(d) ==
            [result |-> check(insert_symbol(CHOOSE t \in d.tables : TRUE, Own).result,
                              d.result.warnings, d.result.errors),
             tables |-> UNION {insert_symbol(t, Own).tables : t \in d.tables},
             traits |-> traits]
    IN  Inserted(generic_declaration_type_check(table, node))

generic_node_type_check(table, traits, node) ==
    IF node.kind = "ImplSelf"
    THEN impl_self_type_check(table, traits, node)
    ELSE generic_item_type_check(table, traits, node)

\* the generic declarations and impl blocks of the program; X and Q are declared nowhere
GenericNodeInputs ==
    {GenericNode("Struct", "T", <<>>, <<>>),
     GenericNode("Struct", "S", <<"T">>, <<"T">>),
     GenericNode("Struct", "P", <<"T", "U">>, <<"T", "U", "X">>),
     GenericNode("Enum", "E", <<"T">>, <<"T", "u64">>),
     GenericNode("Enum", "O", <<"T", "T">>, <<"T">>),
     GenericNode("ImplSelf", "S", <<"T">>, <<"f">>),
     GenericNode("ImplSelf", "E", <<"U">>, <<"f", "g">>),
     GenericNode("ImplSelf", "Q", <<"T">>, <<"f">>)}

\* a generic declaration or an impl block of the module is type-checked
type_check_generic_node ==
    \E node \in GenericNodeInputs :
        LET Returned(r) ==
                /\ symbols' \in r.tables
                /\ modules' = [modules EXCEPT !["lib"] = r.traits]
                /\ ret' = RetMono("generic_node_type_check",
                                  [NoArg EXCEPT !.kind = node.kind, !.decl = node],
                                  -1, r.result.ok, NoDecl, r.result.warnings, r.result.errors,
                                  symbols, <<>>)
        IN  /\ Returned(generic_node_type_check(symbols, modules["lib"], node))
            /\ UNCHANGED <<slab, decls, types, insts, threads, implemented_traits, scope, typed_nodes, service, functions, panicked>>

(***************************************************************************)
(* The language server's service                                           *)
(***************************************************************************)
\* the messages a client sends: one request or notification each
Messages ==
    {[method |-> "initialize", uri |-> ""],
     [method |-> "initialized", uri |-> ""],
     [method |-> "textDocument/didOpen", uri |-> "inmemory::///test"],
     [method |-> "textDocument/didOpen", uri |-> "inmemory::///lib"],
     [method |-> "textDocument/didOpen", uri |-> "inmemory::///main"],
     [method |-> "shutdown", uri |-> ""],
     [method |-> "exit", uri |-> ""]}

\* a service that never takes note of the exit
never_exited(s) == FALSE

\* whether the service has processed the exit notification
exited(s) == s.state = "Exited"

\* LspService::poll_ready
poll_ready(s) == IF exited(s) THEN "ExitedError" ELSE "Ok"

\* the state of the service after the message, for a service that has not exited
service_after(s, message) ==
    CASE message.method = "exit" -> [s EXCEPT !.state = "Exited"]
      [] message.method = "initialize" /\ s.state = "Uninitialized" -> [s EXCEPT !.state = "Initialized"]
      [] message.method = "shutdown" /\ s.state = "Initialized" -> [s EXCEPT !.state = "ShutDown"]
      [] message.method = "textDocument/didOpen" /\ s.state = "Initialized" ->
             [s EXCEPT !.documents = @ \cup {message.uri}]
      [] OTHER -> s

\* the response to the message of a service that has not exited: requests are answered,
\* with an error out of turn, and notifications have no response
service_response(s, message) ==
    CASE message.method = "initialize" ->
             IF s.state = "Uninitialized" THEN "Response" ELSE "InvalidRequest"
      [] message.method = "shutdown" ->
             IF s.state = "Initialized" THEN "Response"
             ELSE IF s.state = "Uninitialized" THEN "ServerNotInitialized" ELSE "InvalidRequest"
      [] OTHER -> "None"

\* LspService::call as testing_utils::service::send sees it
send(s, message) ==
    IF exited(s)
    THEN [result |-> CompileResult(FALSE, <<>>, <<"ExitedError">>), response |-> "None", service |-> s]
    ELSE [result |-> CompileResult(TRUE, <<>>, <<>>), response |-> service_response(s, message),
          service |-> service_after(s, message)]

\* assert_status!: the client polls the service
service_poll_ready ==
    /\ ret' = Ret("poll_ready", NoArg, -1, poll_ready(service) = "Ok", NoDecl, <<>>,
                  IF poll_ready(service) = "Ok" THEN <<>> ELSE <<poll_ready(service)>>)
    /\ UNCHANGED <<slab, decls, types, modules, insts, threads, implemented_traits, symbols, scope, typed_nodes, service, functions, panicked>>

\* assert_exchange!: the client sends a message and awaits the answer
service_call ==
    \E message \in Messages :
        LET Returned(r) ==
                /\ service' = r.service
                /\ ret' = RetMono("send", [NoArg EXCEPT !.kind = message.method, !.module_path = message.uri],
                                  -1, r.result.ok, NoDecl, <<>>, r.result.errors, <<r.response>>, <<>>)
        IN  /\ Returned(send(service, message))
            /\ UNCHANGED <<slab, decls, types, modules, insts, threads, implemented_traits, symbols, scope, typed_nodes, functions, panicked>>

(***************************************************************************)
(* Function engine                                                         *)
(***************************************************************************)
\* TypedDeclaration::FunctionRef(other) and a declaration that is not a reference
FunctionRef(other) == [kind |-> "FunctionRef", other |-> other, name |-> ""]

FunctionDecl(name) == [kind |-> "FunctionDeclaration", other |-> -1, name |-> name]

\* the ids of the function slab
FunctionIds == 0 .. (Len(functions) - 1)

\* the declarations a caller can hand to insert_function: a FunctionId is made from any
\* usize, so a reference can name an earlier id or the id the insertion is about to return
FunctionInputs == {FunctionDecl("f"), FunctionDecl("g")} \cup {FunctionRef(other) : other \in 0 .. Len(functions)}

\* FunctionEngine::look_up_function_id_raw
look_up_function_id_raw(fs, id) == fs[id + 1]

\* FunctionEngine::look_up_function_id: the references are followed one call after the
\* other; a call for an id that an enclosing call is already looking up repeats it with
\* the same slab, so the recursion has no end
RECURSIVE look_up_function_id(_, _, _)
look_up_function_id(fs, id, pending) ==
    IF id \in pending
    THEN [returns |-> FALSE, decl |-> FunctionRef(id)]
    ELSE IF look_up_function_id_raw(fs, id).kind = "FunctionRef"
    THEN look_up_function_id(fs, look_up_function_id_raw(fs, id).other, pending \cup {id})
    ELSE [returns |-> TRUE, decl |-> look_up_function_id_raw(fs, id)]

\* function_engine::insert_function
fe_insert_function ==
    \E decl \in FunctionInputs :
        /\ ~panicked
        /\ Len(functions) < MaxFunctions
        /\ functions' = Append(functions, decl)
        /\ ret' = Ret("fe_insert_function", [NoArg EXCEPT !.kind = decl.kind, !.id = decl.other],
                      Len(functions), FALSE, NoDecl, <<>>, <<>>)
        /\ UNCHANGED <<slab, decls, types, modules, insts, threads, implemented_traits, symbols, scope, typed_nodes, service, panicked>>

\* function_engine::look_up_function_id_raw
fe_look_up_function_id_raw ==
    \E id \in FunctionIds :
        /\ ~panicked
        /\ ret' = RetMono("look_up_function_id_raw", [NoArg EXCEPT !.id = id], id, TRUE, NoDecl,
                          <<>>, <<>>, <<look_up_function_id_raw(functions, id)>>, <<>>)
        /\ UNCHANGED <<slab, decls, types, modules, insts, threads, implemented_traits, symbols, scope, typed_nodes, service, functions, panicked>>

\* function_engine::look_up_function_id; a recursion without end overflows the stack,
\* which ends the process
fe_look_up_function_id ==
    \E id \in FunctionIds :
        LET Returned(r) ==
                /\ ret' = RetMono("look_up_function_id", [NoArg EXCEPT !.id = id], id, r.returns,
                                  NoDecl, <<>>, <<>>, <<r.decl>>, <<>>)
                /\ panicked' = ~r.returns
        IN  /\ ~panicked
            /\ Returned(look_up_function_id(functions, id, {}))
            /\ UNCHANGED <<slab, decls, types, modules, insts, threads, implemented_traits, symbols, scope, typed_nodes, service, functions>>

(***************************************************************************)
(* Equality of declaration wrappers                                        *)
(***************************************************************************)
\* the variants of DeclarationWrapper
EqKinds == {"Unknown", "Enum", "Function", "Trait", "TraitFn", "TraitImpl", "Struct", "Storage"}

\* the wrappers that are compared: of every variant, two declarations
EqInputs ==
    {WrapperUnknown}
    \cup {Wrapper(kind, Decl(name, "a.sw", <<>>, <<>>)) : kind \in EqKinds \ {"Unknown"}, name \in {"E", "F"}}

\* PartialEq::eq of DeclarationWrapper: the arms of the match, then the wildcard
eq(l, r) ==
    CASE l.kind = "Unknown" /\ r.kind = "Unknown" -> TRUE
      [] l.kind = "Function" /\ r.kind = "Function" -> l.decl = r.decl
      [] l.kind = "Trait" /\ r.kind = "Trait" -> l.decl = r.decl
      [] l.kind = "TraitFn" /\ r.kind = "TraitFn" -> l.decl = r.decl
      [] l.kind = "TraitImpl" /\ r.kind = "TraitImpl" -> l.decl = r.decl
      [] l.kind = "Struct" /\ r.kind = "Struct" -> l.decl = r.decl
      [] l.kind = "Storage" /\ r.kind = "Storage" -> l.decl = r.decl
      [] OTHER -> FALSE

\* two wrappers are compared
compare_wrappers ==
    \E l \in EqInputs, r \in EqInputs :
        /\ ret' = RetMono("eq", [NoArg EXCEPT !.kind = l.kind, !.decl = l.decl], -1, eq(l, r),
                          NoDecl, <<>>, <<>>, <<l, r>>, <<>>)
        /\ UNCHANGED <<slab, decls, types, modules, insts, threads, implemented_traits, symbols, scope, typed_nodes, service, functions, panicked>>

(***************************************************************************)
(* Specifications                                                          *)
(***************************************************************************)
Init ==
    /\ slab = <<>>
    /\ decls = {}
    /\ types = <<>>
    /\ modules = [m \in ModulePaths |-> {}]
    /\ ret = Ret("init", NoArg, -1, FALSE, NoDecl, <<>>, <<>>)
    /\ insts = <<>>
    /\ threads = [t \in Threads |-> Idle]
    /\ implemented_traits = <<>>
    /\ symbols = {}
    /\ scope = {}
    /\ typed_nodes = <<>>
    /\ service = [state |-> "Uninitialized", documents |-> {}]
    /\ functions = <<>>
    /\ panicked = FALSE

\* the signature cache of the declaration engine
NextDE ==
    \/ te_insert_type
    \/ insert_enum
    \/ lookup_enum
    \/ get_enum
    \/ replace_decl_id
    \/ clear

SpecDE == Init /\ [][NextDE]_vars

\* the slab of the declaration engine, all declaration kinds
NextSlab ==
    \/ de_insert
    \/ insert_function
    \/ insert_trait
    \/ insert_trait_fn
    \/ insert_impl_trait
    \/ insert_struct
    \/ insert_storage
    \/ insert_abi
    \/ insert_constant
    \/ get_function
    \/ get_trait
    \/ get_trait_fn
    \/ get_impl_trait
    \/ get_struct
    \/ get_storage
    \/ get_abi
    \/ get_constant
    \/ get_enum
    \/ replace_decl_id
    \/ clear

SpecSlab == Init /\ [][NextSlab]_vars

\* the monomorphizer over the type engine and the namespace
NextMono ==
    \/ te_insert_type
    \/ insert_trait_implementation
    \/ monomorphize_without_self
    \/ monomorphize_with_self

SpecMono == Init /\ [][NextMono]_vars

\* the signature cache while the type engine unifies
NextSig ==
    \/ te_insert_type
    \/ te_unify
    \/ insert_enum
    \/ lookup_enum

SpecSig == Init /\ [][NextSig]_vars

\* equality and hash of the keys while the type engine interns and unifies
NextHash ==
    \/ te_insert_type
    \/ te_unify
    \/ eq_and_hash

SpecHash == Init /\ [][NextHash]_vars

\* two threads, each in one call of insert_enum
NextThreads ==
    \E t \in Threads :
        \/ insert_enum_lookup(t)
        \/ insert_enum_insert(t)
        \/ insert_enum_decls(t)

SpecThreads == Init /\ [][NextThreads]_vars

\* the method resolver over the impl blocks registered for the receiver type
NextResolve ==
    \/ insert_trait_implementation_of_block
    \/ insert_trait_implementation_for_type
    \/ find_method_for_type

SpecResolve == Init /\ [][NextResolve]_vars

\* the checker of enum declarations
NextEnum == type_check_enum_declaration

SpecEnum == Init /\ [][NextEnum]_vars

\* the checker of declaration nodes and the resolution of call paths
NextScope ==
    \/ type_check_node
    \/ resolve_call_path

SpecScope == Init /\ [][NextScope]_vars

\* the checker of the nodes of a block
NextBlock == type_check_block_node

SpecBlock == Init /\ [][NextBlock]_vars

\* the checkers that recover from a type that does not resolve
NextRecovery ==
    \/ type_check_struct_declaration
    \/ type_check_function_parameter
    \/ type_check_block_node
    \/ te_insert_type
    \/ monomorphize_with_self

SpecRecovery == Init /\ [][NextRecovery]_vars

\* the signature cache handed declarations whose spans need not have a path
NextSpans ==
    \/ insert_enum_spanned
    \/ lookup_enum_spanned

SpecSpans == Init /\ [][NextSpans]_vars

\* the checker of generic declarations and impl blocks
NextGenerics == type_check_generic_node

SpecGenerics == Init /\ [][NextGenerics]_vars

\* a client of the language server
NextLsp == service_poll_ready \/ service_call

SpecLsp == Init /\ [][NextLsp]_vars

\* the insertions of the declaration engine, with replace_decl_id and clear
NextIds ==
    \/ de_insert
    \/ insert_function
    \/ insert_trait
    \/ insert_trait_fn
    \/ insert_impl_trait
    \/ insert_struct
    \/ insert_storage
    \/ insert_abi
    \/ insert_constant
    \/ insert_enum
    \/ replace_decl_id
    \/ clear

SpecIds == Init /\ [][NextIds]_vars

\* the function engine
NextFunctions ==
    \/ fe_insert_function
    \/ fe_look_up_function_id_raw
    \/ fe_look_up_function_id

SpecFunctions == Init /\ [][NextFunctions]_vars

\* comparisons of declaration wrappers
NextEq == compare_wrappers

SpecEq == Init /\ [][NextEq]_vars

(***************************************************************************)
(* Properties of the declaration engine                                    *)
(***************************************************************************)
\* the cache entries whose key equals the signature of declaration d: same defining
\* file, same name, pairwise equal type parameters
SameSignature(d) ==
    {e \in decls :
        /\ e.key.path = d.path
        /\ e.key.name = d.name
        /\ Len(e.key.type_parameters) = Len(d.type_parameters)
        /\ \A i \in 1 .. Len(d.type_parameters) :
               TypeParameterEq(types, e.key.type_parameters[i], d.type_parameters[i])}

C1_Step ==
    (/\ ret'.op = "insert_enum"
     /\ ret'.arg.cache = "Enable")
    => LET d == ret'.arg.decl
       IN  IF SameSignature(d) # {}
           THEN /\ ret'.id \in {e.id : e \in SameSignature(d)}
                /\ slab' = slab
                /\ decls' = decls
           ELSE /\ slab' = Append(slab, Wrapper("Enum", d))
                /\ ret'.id = Len(slab)
                /\ \E e \in decls' :
                       /\ decls' = decls \cup {e}
                       /\ e \notin decls
                       /\ e.id = ret'.id
                       /\ e.key = DeclarationSignature(d.path, d.name, d.type_parameters)

C1_OneIdPerSignature ==
    \A e1, e2 \in decls :
        (/\ e1.key.path = e2.key.path
         /\ e1.key.name = e2.key.name
         /\ TypeParametersEq(types, e1.key.type_parameters, e2.key.type_parameters))
        => e1 = e2

\* C1: insert_enum with cache lookup enabled returns the cached id of an equal signature
\* and changes neither slab nor cache; otherwise it stores the enum under a new id and
\* files that id under the signature; so every signature is filed under exactly one id.
C1_InsertEnumCache == [][C1_Step]_vars /\ []C1_OneIdPerSignature

\* a cache hit through a key that is equal to, but not the same value as, the one filed
C1_Witness ==
    /\ ret.op = "insert_enum"
    /\ ret.arg.cache = "Enable"
    /\ \E e \in decls :
           /\ e.id = ret.id
           /\ e.key.type_parameters # ret.arg.decl.type_parameters
           /\ e.key.type_parameters # <<>>
           /\ e \in SameSignature(ret.arg.decl)
    /\ Cardinality(decls) = 2

\* the friendly names of the declaration kinds, as the diagnostics print them
C9_ActualName ==
    [Unknown |-> "unknown", Enum |-> "enum", Function |-> "function", Trait |-> "trait",
     Struct |-> "struct", TraitImpl |-> "impl trait", TraitFn |-> "trait function",
     Storage |-> "storage", Abi |-> "abi", Constant |-> "constant"]

C9_Result ==
    ret.op = "get"
    => LET stored == slab[ret.arg.id + 1]
       IN  /\ (stored.kind = ret.arg.kind) <=> ret.some
           /\ ret.some => (ret.value = stored.decl /\ ret.errors = <<>>)
           /\ (stored.kind = "Unknown")
              => (/\ Len(ret.errors) = 1
                  /\ ret.errors[1].kind = "Internal")
           /\ (stored.kind \notin {"Unknown", ret.arg.kind})
              => (/\ Len(ret.errors) = 1
                  /\ ret.errors[1].kind = WrongKind(ret.arg.kind)
                  /\ ret.errors[1].actually = C9_ActualName[stored.kind])

C9_Frame == (ret'.op = "get") => (slab' = slab /\ decls' = decls)

\* C9: get_<kind>(id) returns the stored declaration exactly when it is of the requested
\* kind, the internal error for the Unknown placeholder, and otherwise the error of the
\* requested kind that carries the friendly name of the stored kind; the engine's
\* declarations are left as they were.
C9_GetKind == []C9_Result /\ [][C9_Frame]_vars

\* a get_trait_fn that found a trait, and a get_function that found the placeholder
C9_Witness ==
    /\ ret.op = "get"
    /\ ~ret.some
    /\ ret.arg.kind = "TraitFn"
    /\ slab[ret.arg.id + 1].kind = "Trait"
    /\ \E i \in SlabIds : slab[i + 1].kind = "Unknown"

C10_Step ==
    (ret'.op = "replace_decl_id")
    => /\ Len(slab') = Len(slab)
       /\ ret'.arg.id \in SlabIds
       /\ slab'[ret'.arg.id + 1] = Wrapper(ret'.arg.kind, ret'.arg.decl)
       /\ \A i \in SlabIds : i # ret'.arg.id => slab'[i + 1] = slab[i + 1]
       /\ decls' = decls

\* C10: replace_decl_id(id, wrapper) stores wrapper under id, leaves the declaration
\* under every other id as it was and allocates no id.
C10_ReplaceInPlace == [][C10_Step]_vars

\* the first of two declarations has been replaced by one of another kind
C10_Witness ==
    /\ ret.op = "replace_decl_id"
    /\ Len(slab) = 2
    /\ ret.arg.id = 0
    /\ slab[1].kind = ret.arg.kind
    /\ slab[2].kind # ret.arg.kind

(***************************************************************************)
(* Properties of the monomorphizer                                         *)
(***************************************************************************)
MonoOps == {"monomorphize_without_self", "monomorphize_with_self"}

\* call r monomorphized a declaration that has (or has no) type parameters with (or
\* without) type arguments
Monomorphized(r, has_parameters, has_arguments) ==
    /\ r.op \in MonoOps
    /\ (r.arg.decl.type_parameters # <<>>) = has_parameters
    /\ (r.arg.type_arguments # <<>>) = has_arguments

ArityMismatch(r) ==
    /\ Monomorphized(r, TRUE, TRUE)
    /\ Len(r.arg.decl.type_parameters) # Len(r.arg.type_arguments)

ArityMatch(r) ==
    /\ Monomorphized(r, TRUE, TRUE)
    /\ Len(r.arg.decl.type_parameters) = Len(r.arg.type_arguments)

\* the unifications call r made, in order
Unifications(r) == SelectSeq(r.trace, LAMBDA e : e.ev = "unify")

\* the steps call r made to substitute the declaration, in order
Substitution(r) == SelectSeq(r.trace, LAMBDA e : e.ev # "unify")

\* the descriptor the i-th type argument of call r resolves to
ResolvedArgument(r, i) ==
    LET ti == look_up_type_id(types, r.arg.type_arguments[i].type_id)
    IN  CASE ti.tag = "Custom" -> TyErrorRecovery
          [] ti.tag = "SelfType" /\ r.op = "monomorphize_with_self" ->
                 look_up_type_id(types, r.arg.self_type)
          [] OTHER -> ti

\* the mapping of call r has one entry per type parameter, in declaration order, each
\* to an id of its own
MappingInOrder(r) ==
    /\ Len(r.mapping) = Len(r.arg.decl.type_parameters)
    /\ \A i \in 1 .. Len(r.mapping) :
           r.mapping[i].from = r.arg.decl.type_parameters[i].type_id
    /\ \A i, j \in 1 .. Len(r.mapping) : i # j => r.mapping[i].to # r.mapping[j].to

\* call r unified the i-th placeholder with the i-th resolved type argument, and the
\* placeholder now denotes that argument
UnifiedInOrder(r) ==
    /\ Len(Unifications(r)) = Len(r.mapping)
    /\ \A i \in 1 .. Len(r.mapping) :
           /\ Unifications(r)[i].a = r.mapping[i].to
           /\ look_up_type_id(types, Unifications(r)[i].b) = ResolvedArgument(r, i)
           /\ RepId(types, r.mapping[i].to) = RepId(types, Unifications(r)[i].b)

\* the id that type id t of the declaration denotes after substitution with the mapping
\* of call r
Replaced(r, t) ==
    IF \E k \in 1 .. Len(r.mapping) : r.mapping[k].from = t
    THEN RepId(types, r.mapping[CHOOSE k \in 1 .. Len(r.mapping) : r.mapping[k].from = t].to)
    ELSE RepId(types, t)

\* call r returned its declaration with every variant, field and type parameter
\* substituted by the mapping of r
SubstitutedWith(r) ==
    /\ r.some
    /\ r.value.name = r.arg.decl.name
    /\ Len(r.value.members) = Len(r.arg.decl.members)
    /\ Len(r.value.type_parameters) = Len(r.arg.decl.type_parameters)
    /\ \A i \in 1 .. Len(r.arg.decl.members) :
           /\ r.value.members[i].name = r.arg.decl.members[i].name
           /\ RepId(types, r.value.members[i].type) = Replaced(r, r.arg.decl.members[i].type)
    /\ \A k \in 1 .. Len(r.arg.decl.type_parameters) :
           RepId(types, r.value.type_parameters[k].type_id)
               = Replaced(r, r.arg.decl.type_parameters[k].type_id)
    /\ Len(Substitution(r)) > 0

\* call r failed on its module path after the mapping was made: no substitution
FailedOnModule(r) ==
    /\ ~r.some
    /\ Substitution(r) = <<>>
    /\ r.errors # <<>>
    /\ r.errors[Len(r.errors)].kind = "ModuleNotFound"

C2_Result ==
    ArityMismatch(ret)
    => /\ ~ret.some
       /\ Len(ret.errors) = 1
       /\ ret.errors[1].kind = "IncorrectNumberOfTypeArguments"
       /\ ret.errors[1].given = Len(ret.arg.type_arguments)
       /\ ret.errors[1].expected = Len(ret.arg.decl.type_parameters)
       /\ ret.mapping = <<>>
       /\ ret.trace = <<>>

C2_Frame == ArityMismatch(ret') => types' = types /\ modules' = modules

\* C2: with M > 0 type parameters and N > 0 type arguments, N # M, the call fails with
\* the one error IncorrectNumberOfTypeArguments (given N, expected M): nothing is
\* unified, nothing substituted, no method copied
C2_IncorrectNumber == []C2_Result /\ [][C2_Frame]_vars

\* two type arguments, one of them an unknown name, were given to the enum of one parameter
C2_Witness ==
    /\ ArityMismatch(ret)
    /\ Len(ret.arg.type_arguments) = 2
    /\ Len(ret.arg.decl.type_parameters) = 1

\* C3, as stated: with n > 0 type parameters and n type arguments the mapping has one
\* entry per parameter in order, the i-th placeholder is unified with the i-th resolved
\* argument (the error-recovery type when it does not resolve), and the declaration is
\* substituted with that mapping
C3_AsStated ==
    ArityMatch(ret) => MappingInOrder(ret) /\ UnifiedInOrder(ret) /\ SubstitutedWith(ret)

\* C3, amended: the mapping is made and unified as stated at every such call; the
\* declaration is substituted with it when the module path names a module, and when it
\* names none the call fails on the path with nothing substituted
C3_Instantiate ==
    ArityMatch(ret)
    => /\ MappingInOrder(ret)
       /\ UnifiedInOrder(ret)
       /\ IF ret.arg.module_path \in DOMAIN modules
          THEN SubstitutedWith(ret)
          ELSE FailedOnModule(ret)

\* the struct of two parameters was instantiated with u64 and a name that does not resolve
C3_Witness ==
    /\ ArityMatch(ret)
    /\ Len(ret.mapping) = 2
    /\ ret.some
    /\ ret.errors # <<>>
    /\ look_up_type_id(types, ret.mapping[1].to) = TyU64
    /\ look_up_type_id(types, ret.mapping[2].to) = TyErrorRecovery

C4_Enforced(r) ==
    /\ ~r.some
    /\ r.errors = <<Error("NeedsTypeArguments", r.arg.decl.name, "", 0, 0,
                          IF r.arg.call_site_span
                          THEN CallSiteSpan
                          ELSE NameSpan(r.arg.decl))>>
    /\ r.mapping = <<>>
    /\ r.trace = <<>>

C4_Placeholders(r) ==
    /\ MappingInOrder(r)
    /\ \A i \in 1 .. Len(r.mapping) : types[r.mapping[i].to + 1].tag \in Placeholders
    /\ \A i \in 1 .. Len(r.errors) : r.errors[i].kind # "NeedsTypeArguments"

C4_ResultAsStated ==
    Monomorphized(ret, TRUE, FALSE)
    => IF ret.arg.enforce_type_arguments = "Yes"
       THEN C4_Enforced(ret)
       ELSE C4_Placeholders(ret) /\ SubstitutedWith(ret)

C4_Result ==
    Monomorphized(ret, TRUE, FALSE)
    => IF ret.arg.enforce_type_arguments = "Yes"
       THEN C4_Enforced(ret)
       ELSE /\ C4_Placeholders(ret)
            /\ IF ret.arg.module_path \in DOMAIN modules
               THEN SubstitutedWith(ret) /\ ret.errors = <<>>
               ELSE FailedOnModule(ret)

C4_Frame ==
    Monomorphized(ret', TRUE, FALSE)
    => IF ret'.arg.enforce_type_arguments = "Yes"
       THEN types' = types /\ modules' = modules
       ELSE \A i \in 1 .. Len(ret'.mapping) : ret'.mapping[i].to \notin TypeIds(types)

\* C4, as stated: with type parameters and no type arguments, enforcement Yes fails with
\* the one error NeedsTypeArguments, spanned at the call site when given and at the
\* declaration's name otherwise, substituting nothing and leaving the namespace; with No
\* the call succeeds, every parameter mapped to a fresh unresolved placeholder and the
\* declaration substituted with that mapping
C4_AsStated == []C4_ResultAsStated /\ [][C4_Frame]_vars

\* C4, amended: as stated under Yes; under No the fresh placeholders are made at every
\* call, the declaration is substituted when the module path names a module, and when
\* it names none the call fails on the path with nothing substituted
C4_WithoutArguments == []C4_Result /\ [][C4_Frame]_vars

\* the generic enum was used without type arguments, not enforced, and came back
\* substituted with a placeholder
C4_Witness ==
    /\ Monomorphized(ret, TRUE, FALSE)
    /\ ret.arg.enforce_type_arguments = "No"
    /\ ret.some
    /\ Len(ret.mapping) = 1

C5_Result ==
    Monomorphized(ret, FALSE, TRUE)
    => /\ ~ret.some
       /\ Len(ret.errors) = 1
       /\ ret.errors[1].kind = "DoesNotTakeTypeArguments"
       /\ ret.errors[1].name = ret.arg.decl.name
       /\ ret.mapping = <<>>
       /\ ret.trace = <<>>

C5_Frame == Monomorphized(ret', FALSE, TRUE) => types' = types /\ modules' = modules

\* C5: with no type parameters and one type argument or more the call fails with the
\* one error DoesNotTakeTypeArguments naming the declaration: nothing is substituted,
\* nothing unified, and the namespace is left as it was
C5_DoesNotTake == []C5_Result /\ [][C5_Frame]_vars

\* the struct without parameters was given two type arguments
C5_Witness ==
    /\ Monomorphized(ret, FALSE, TRUE)
    /\ Len(ret.arg.type_arguments) = 2
    /\ ret.errors # <<>>

C6_Result ==
    Monomorphized(ret, FALSE, FALSE)
    => /\ ret.some
       /\ ret.value = ret.arg.decl
       /\ ret.warnings = <<>>
       /\ ret.errors = <<>>

C6_Frame ==
    Monomorphized(ret', FALSE, FALSE)
    => /\ modules' = modules
       /\ types' = types
       /\ slab' = slab
       /\ decls' = decls

\* C6: with no type parameters and no type arguments the call returns the declaration
\* as it is, without warnings or errors, and the namespace, the type engine and the
\* declaration engine stay as they were
C6_NoOp == []C6_Result /\ [][C6_Frame]_vars

\* the struct without parameters was used without type arguments, after an impl block
\* had registered a method
C6_Witness ==
    /\ Monomorphized(ret, FALSE, FALSE)
    /\ ret.some
    /\ modules["lib"] # {}

\* C7: a monomorphization that substitutes derives the nominal type, rewrites the types
\* of the declaration, derives the nominal type again and copies the methods of the old
\* type to the new one, once and in this order; every method of the old type is then
\* offered on the new one. Every successful call on a generic declaration substitutes
C7_CopyMethodsOnce ==
    /\ (ret.op \in MonoOps /\ ret.some /\ ret.arg.decl.type_parameters # <<>>)
       => Substitution(ret) # <<>>
    /\ (ret.op \in MonoOps /\ Substitution(ret) # <<>>)
       => /\ Len(Substitution(ret)) = 4
          /\ Substitution(ret)[1].ev = "create_type_id"
          /\ Substitution(ret)[2].ev = "copy_types"
          /\ Substitution(ret)[3].ev = "create_type_id"
          /\ Substitution(ret)[4]
                 = Event("copy_methods_to_type", Substitution(ret)[1].a,
                         Substitution(ret)[3].a)
          /\ MethodsOf(types, modules[ret.arg.module_path],
                       look_up_type_id(types, Substitution(ret)[1].a))
                 \subseteq MethodsOf(types, modules[ret.arg.module_path],
                                     look_up_type_id(types, Substitution(ret)[3].a))

\* a generic declaration with a method was instantiated: the new nominal type is
\* another one than the old and offers the method
C7_Witness ==
    /\ ret.op \in MonoOps
    /\ ret.some
    /\ Len(Substitution(ret)) = 4
    /\ Substitution(ret)[1].a # Substitution(ret)[3].a
    /\ <<"Tr", "m">> \in MethodsOf(types, modules[ret.arg.module_path],
                                   look_up_type_id(types, Substitution(ret)[3].a))

\* the latest two instantiations are of the same generic declaration with the same
\* type arguments
SameInstantiation ==
    /\ Len(insts) = 2
    /\ insts[1].w = insts[2].w
    /\ insts[1].type_arguments = insts[2].type_arguments
    /\ insts[1].type_arguments # <<>>

\* C8: two instantiations of the same generic declaration with the same type arguments
\* create nominal types that unify without error and denote the same type, and the
\* methods offered on the first are offered on the second
C8_SameInstantiation ==
    SameInstantiation
    => /\ unify(types, insts[1].type_id, insts[2].type_id, NoSpan).errors = <<>>
       /\ TypeInfoEq(types, look_up_type_id(types, insts[1].type_id),
                     look_up_type_id(types, insts[2].type_id))
       /\ MethodsOf(types, modules["lib"], look_up_type_id(types, insts[1].type_id))
              \subseteq MethodsOf(types, modules["lib"],
                                  look_up_type_id(types, insts[2].type_id))

\* the generic enum was instantiated with u64 twice, the second time by the last call,
\* and the method of the first instantiation is offered on the second
C8_Witness ==
    /\ SameInstantiation
    /\ ret.op \in MonoOps
    /\ ret.some
    /\ insts[2].value = ret.value
    /\ <<"Tr", "m">> \in MethodsOf(types, modules["lib"],
                                   look_up_type_id(types, insts[2].type_id))


(***************************************************************************)
(* Properties of the signature cache under unification                     *)
(***************************************************************************)
\* the cache entries whose key compares equal to declaration d's signature now
EqualSignature(d) ==
    {e \in decls :
        SigEq(types, e.key, DeclarationSignature(d.path, d.name, d.type_parameters))}

\* C11: the hash and the equality of a DeclarationSignature do not depend on state the
\* type engine can change, so after insert_enum filed a signature, a lookup with an
\* equal signature finds the entry, whatever unifications happened in between.
C11_StableLookup ==
    (/\ ret.op = "lookup_enum"
     /\ EqualSignature(ret.arg.decl) # {})
    => (/\ ret.some
        /\ ret.id \in {e.id : e \in EqualSignature(ret.arg.decl)})


(***************************************************************************)
(* Equality and hash                                                       *)
(***************************************************************************)
\* C12: in one state of the type engine, two keys that compare equal have equal hashes:
\* type parameters, struct fields, enum variants and declaration signatures alike.
C12_EqImpliesHash ==
    (/\ ret.op = "eq_and_hash"
     /\ ret.some)
    => ret.trace[1] = ret.trace[2]

\* two signatures that are equal through different TypeIds, after a unification
C12_Witness ==
    /\ ret.op = "eq_and_hash"
    /\ ret.arg.kind = "Signature"
    /\ ret.some
    /\ ret.mapping[1] # ret.mapping[2]
    /\ \E id \in TypeIds(types) :
           /\ Annotations[id + 1].tag \in Placeholders
           /\ types[id + 1].tag = "Ref"
           /\ ret.mapping[1].type_parameters = <<TypeParameter(id, "T")>>


(***************************************************************************)
(* Concurrent insert_enum                                                  *)
(***************************************************************************)
\* both threads have returned from calls with the cache enabled and equal signatures
EqualCallsReturned ==
    /\ \A t \in Threads : threads[t].pc = "returned" /\ threads[t].cache_lookup = "Enable"
    /\ SigEq(types,
             DeclarationSignature(threads[1].enum_decl.path, threads[1].enum_decl.name,
                                  threads[1].enum_decl.type_parameters),
             DeclarationSignature(threads[2].enum_decl.path, threads[2].enum_decl.name,
                                  threads[2].enum_decl.type_parameters))

\* C13: two concurrent insert_enum calls with equal signatures and the cache enabled
\* return the same DeclarationId and store exactly one declaration, in every interleaving.
C13_SameId ==
    EqualCallsReturned
    => (/\ threads[1].id = threads[2].id
        /\ Len(slab) = 1)


(***************************************************************************)
(* Properties of the method resolver                                       *)
(***************************************************************************)
\* the last call was find_method_for_type; ret.arg is the call, ret.mapping the impl
\* blocks registered before it, ret.trace its passes and registrations
Resolved == ret.op = "find_method_for_type"

\* the candidates of the name in a namespace, and those that pass the filter
Candidates(implemented) ==
    find_items_for_type(implemented, ret.arg.type_id, ret.arg.method_name).items

Matching(implemented) ==
    SelectSeq(Candidates(implemented),
              LAMBDA f : passes_filter(f, ret.arg.annotation_type, ret.arg.arguments_types))

\* the impl blocks that supply a method of a list
BlocksOf(methods) == {Functions[methods[i]].implementing_type : i \in 1 .. Len(methods)}

EventsOf(ev) == SelectSeq(ret.trace, LAMBDA e : e.ev = ev)

MethodNotFound == \E i \in 1 .. Len(ret.errors) : ret.errors[i].kind = "MethodNotFound"

\* the receiver is a type, no method of the name is registered, retrying is enabled
NoCandidatesYet ==
    /\ Resolved
    /\ ret.arg.type_id # "ErrorRecovery"
    /\ Candidates(ret.mapping) = <<>>
    /\ ret.arg.try_inserting_trait_impl_on_failure = "Yes"

\* the lazy registration and the one retry, with retrying disabled
RetriedOnce ==
    /\ Len(ret.trace) = 3
    /\ ret.trace[1] = Event("lookup", 0, "Yes")
    /\ ret.trace[2] = Event("register", ret.arg.type_id, 0)
    /\ ret.trace[3].ev = "lookup"
    /\ ret.trace[3].b = "No"
    /\ implemented_traits = insert_for_type(ret.mapping, ret.arg.type_id)

FirstArgumentIsErrorRecovery ==
    /\ ret.arg.arguments_types # <<>>
    /\ Head(ret.arg.arguments_types) = "ErrorRecovery"

TraitStringsOf(blocks) == {TraitKey(b) : b \in {x \in blocks : ~ImplBlocks[x].is_impl_self}}

\* two or more trait impls supply a matching method, no inherent method has the name,
\* and there is no qualifier
Ambiguous ==
    /\ Resolved
    /\ ~ret.arg.as_trait.some
    /\ Cardinality(TraitStringsOf(BlocksOf(Matching(ret.mapping)))) >= 2
    /\ \A b \in BlocksOf(Candidates(ret.mapping)) : ~ImplBlocks[b].is_impl_self

\* C15: with two or more trait impls supplying a matching method, no inherent method of
\* the name and no qualifier, no method is returned and the one error is
\* MultipleApplicableItemsInScope, listing every candidate trait once, in ascending order.
C15_Ambiguous ==
    Ambiguous
    => (/\ ~ret.some
        /\ Len(ret.errors) = 1
        /\ ret.errors[1].kind = "MultipleApplicableItemsInScope"
        /\ LET as_traits == ret.errors[1].given
           IN  /\ {as_traits[i] : i \in 1 .. Len(as_traits)}
                      = TraitStringsOf(BlocksOf(Matching(ret.mapping)))
               /\ \A i, j \in 1 .. Len(as_traits) :
                      i < j => StringLess(as_traits[i], as_traits[j]))

\* an ambiguity among traits that were registered in descending order
C15_Witness ==
    /\ Ambiguous
    /\ ~ret.some
    /\ Len(ret.errors[1].given) >= 2
    /\ \E i, j \in 1 .. Len(ret.mapping) :
           /\ i < j
           /\ ~ImplBlocks[ret.mapping[i]].is_impl_self
           /\ ~ImplBlocks[ret.mapping[j]].is_impl_self
           /\ StringLess(TraitKey(ret.mapping[j]), TraitKey(ret.mapping[i]))

\* the matching methods of impl Self blocks
InherentMatching ==
    {f \in {Matching(ret.mapping)[i] : i \in 1 .. Len(Matching(ret.mapping))} :
        ImplBlocks[Functions[f].implementing_type].is_impl_self}

\* what the claim promises for the last call
InherentWins ==
    /\ (Cardinality(BlocksOf(Matching(ret.mapping))) >= 2 /\ InherentMatching # {})
           => (ret.some /\ ret.id \in InherentMatching)
    /\ Cardinality(BlocksOf(Matching(ret.mapping))) = 1
           => (/\ ret.some
               /\ \E i \in 1 .. Len(Matching(ret.mapping)) : ret.id = Matching(ret.mapping)[i])

C17_AsStated ==
    (Resolved /\ ret.some)
    => passes_filter(ret.id, ret.arg.annotation_type, ret.arg.arguments_types)

\* C17: when some method of the requested name passes the filter on arity, parameter
\* types and return type, the method returned passes it; when none does, the method
\* returned is the first one of that name, unfiltered.
C17_Filtered ==
    (Resolved /\ ret.some)
    => IF Matching(implemented_traits) # <<>>
       THEN /\ Len(Functions[ret.id].parameters) = Len(ret.arg.arguments_types)
            /\ \A i \in 1 .. Len(ret.arg.arguments_types) :
                   coercion_check(Functions[ret.id].parameters[i], ret.arg.arguments_types[i])
            /\ \/ ret.arg.annotation_type = "Unknown"
               \/ coercion_check(ret.arg.annotation_type, Functions[ret.id].return_type)
       ELSE ret.id = Head(Candidates(implemented_traits))

\* a method was returned that is not the first of its name: the first was filtered out
C17_Witness ==
    /\ Resolved
    /\ ret.some
    /\ Matching(implemented_traits) # <<>>
    /\ ret.id # Head(Candidates(implemented_traits))
    /\ ret.arg.annotation_type # "Unknown"


(***************************************************************************)
(* Diagnostics of the checkers                                             *)
(***************************************************************************)
\* the members of a sequence
Range(seq) == {seq[i] : i \in 1 .. Len(seq)}

\* C19: every warning and every error raised while a variant of an enum is type-checked,
\* those of the resolution of its type included, is among the warnings and errors that
\* type-checking the enum declaration returns.
C19_NothingDropped ==
    (/\ ret.op = "enum_declaration_type_check"
     /\ ret.arg.kind = "ok")
    => \A i \in 1 .. Len(ret.arg.type_arguments) :
           /\ Range(resolve_type_outcome(i, ret.arg.type_arguments[i]).warnings)
                  \subseteq Range(ret.warnings)
           /\ Range(resolve_type_outcome(i, ret.arg.type_arguments[i]).errors)
                  \subseteq Range(ret.errors)


\* the declaration node of the last call and the symbol entry it declares
CheckedNode == ret.arg.decl

DeclaredSymbol == Symbol(CheckedNode.module, CheckedNode.name, CheckedNode.kind, CheckedNode.visibility)

\* the node of the last call reached its call of insert_symbol
InsertionReached ==
    /\ ret.op = "node_type_check"
    /\ declaration_type_check(CheckedNode).ok \/ CheckedNode.kind \notin ReturnOnFailureKinds

\* C20: under the item-style policy, whenever insert_symbol reports an error for the
\* declaration of a node (function, trait, ABI, struct or enum) because its name is
\* already declared in the scope, that error is among the errors TypedAstNode::type_check
\* returns for the node.
C20_DuplicateReported ==
    InsertionReached
    => Range(insert_symbol(ret.mapping, DeclaredSymbol).result.errors) \subseteq Range(ret.errors)

(***************************************************************************)
(* Properties of the resolution of call paths                              *)
(***************************************************************************)
\* the call path of the last resolution, the requesting module and the module in which
\* the suffix is looked up
ResolvedPath == ret.arg.decl

RequestingModule == ret.trace

ResolvedModule == RequestingModule \o ResolvedPath.prefixes

\* the entries of the resolved module under the suffix when the resolution began
SuffixEntries == SymbolsNamed(ret.mapping, ResolvedModule, ResolvedPath.suffix)

\* the visibility errors
VisibilityErrors == {e \in Range(ret.errors) : e.kind \in {"ImportPrivateSymbol", "ImportPrivateModule"}}

\* C18: resolving a prefixed call path whose suffix is found in the resolved module but
\* is not public reports ImportPrivateSymbol, and a prefix segment after the first that
\* names a private module reports ImportPrivateModule; a suffix absent from the resolved
\* module's symbol table fails with a not-found error; a path with no prefixes is
\* resolved without any visibility error.
C18_VisibilityChecked ==
    (ret.op = "resolve_call_path" /\ IsModule(ResolvedModule))
    => /\ (ResolvedPath.prefixes = <<>>) => VisibilityErrors = {}
       /\ SuffixEntries = {}
              => ~ret.some /\ Diagnostic("SymbolNotFound", ResolvedPath.suffix) \in Range(ret.errors)
       /\ (ResolvedPath.prefixes # <<>> /\ SuffixEntries # {})
              => /\ (\E s \in SuffixEntries : s.visibility # "Public")
                        => Diagnostic("ImportPrivateSymbol", ResolvedPath.suffix) \in Range(ret.errors)
                 /\ \A n \in 2 .. Len(ResolvedPath.prefixes) :
                        ModuleAt(RequestingModule \o SubSeq(ResolvedPath.prefixes, 1, n)).visibility = "Private"
                            => Diagnostic("ImportPrivateModule", ResolvedPath.prefixes[n]) \in Range(ret.errors)


(***************************************************************************)
(* Properties of the checker of blocks                                     *)
(***************************************************************************)
\* the declaration the name resolves to in the table
ResolvesTo(table, name) == {s.decl : s \in SymbolsNamed(table, <<>>, name)}

\* the names of the variables of the blocks
VariableNames == {stmt.name : stmt \in BlockInputs} \ {""}

\* C21: under sequential shadowing, when a variable declaration is type-checked its
\* initializer resolves names to the bindings made before it, the name resolves to the
\* new declaration afterwards while every other name resolves as before, and the typed
\* nodes produced earlier are left as they were.
C21_SequentialShadowing ==
    [][typed_nodes' # typed_nodes
       => /\ SubSeq(typed_nodes', 1, Len(typed_nodes)) = typed_nodes
          /\ ret'.arg.kind = "VariableDeclaration"
                 => /\ typed_nodes'[Len(typed_nodes')].name = ret'.arg.decl.name
                    /\ ret'.arg.decl.body.kind = "VariableExpression"
                           => \/ typed_nodes'[Len(typed_nodes')].body = error_recovery_expr
                                     /\ ResolvesTo(scope, ret'.arg.decl.body.name) = {}
                              \/ ResolvesTo(scope, ret'.arg.decl.body.name)
                                     = {typed_nodes'[Len(typed_nodes')].body.decl}
                    /\ ResolvesTo(scope', ret'.arg.decl.name) = {typed_nodes'[Len(typed_nodes')]}
                    /\ \A n \in VariableNames \ {ret'.arg.decl.name} :
                           ResolvesTo(scope', n) = ResolvesTo(scope, n)]_vars

\* x is declared, declared again with the first x as its initializer, and then used: the
\* use resolves to the second declaration, whose body still holds the first
C21_Witness ==
    /\ Len(typed_nodes) = 3
    /\ typed_nodes[1] = TypedVariableDeclaration("x", TypedExpression("Literal", "", 1, NoVariable), "u64")
    /\ typed_nodes[2] = TypedVariableDeclaration("x", TypedExpression("VariableExpression", "x", 0, typed_nodes[1]), "u64")
    /\ typed_nodes[3] = TypedExpression("VariableExpression", "x", 0, typed_nodes[2])
    /\ ResolvesTo(scope, "x") = {typed_nodes[2]}


(***************************************************************************)
(* Recovery from types that do not resolve                                 *)
(***************************************************************************)
\* the resolution of a type ends with an error
FailsToResolve(kind) == kind \in {"error", "warning_and_error"}

\* the struct declaration checked last got past its type parameters
StructFieldsChecked == ret.op = "struct_declaration_type_check" /\ ret.arg.kind = "ok"

\* the monomorphization checked last had as many type arguments as type parameters, and
\* its module exists
TypeArgumentsResolved ==
    /\ ret.op = "monomorphize_with_self"
    /\ ret.arg.type_arguments # <<>>
    /\ Len(ret.arg.type_arguments) = Len(ret.arg.decl.type_parameters)
    /\ ret.arg.module_path \in DOMAIN modules

\* C22: when the type of a struct field, a function parameter, a variable declaration or
\* a monomorphization type argument does not resolve, the error is among the errors
\* returned, the error-recovery type stands for the failed type, and the checker still
\* returns its value: every field of the struct, the parameter, the declaration, the
\* type mapping.
C22_Recovered ==
    /\ StructFieldsChecked
           => /\ ret.some
              /\ Len(ret.mapping) = Len(ret.arg.type_arguments)
              /\ \A i \in 1 .. Len(ret.arg.type_arguments) :
                     /\ ret.mapping[i].name = i
                     /\ FailsToResolve(ret.arg.type_arguments[i])
                            => /\ ret.mapping[i].type = "ErrorRecovery"
                               /\ Diagnostic("UnknownType", i) \in Range(ret.errors)
    /\ ret.op = "function_parameter_type_check"
           => /\ ret.some
              /\ ret.mapping[1].name = ret.arg.module_path
              /\ FailsToResolve(ret.arg.kind)
                     => /\ ret.mapping[1].type_id = "ErrorRecovery"
                        /\ Diagnostic("UnknownType", ret.arg.module_path) \in Range(ret.errors)
    /\ (ret.op = "block_node_type_check" /\ ret.arg.kind = "VariableDeclaration")
           => /\ ret.some
              /\ typed_nodes[ret.id].name = ret.arg.decl.name
              /\ FailsToResolve(ret.arg.decl.ascription)
                     => /\ typed_nodes[ret.id].type_ascription = "ErrorRecovery"
                        /\ Diagnostic("UnknownType", ret.arg.decl.name) \in Range(ret.errors)
    /\ TypeArgumentsResolved
           => /\ ret.some
              /\ Len(ret.mapping) = Len(ret.arg.type_arguments)
              /\ \A i \in 1 .. Len(ret.arg.type_arguments) :
                     look_up_type_id(types, ret.arg.type_arguments[i].type_id).tag = "Custom"
                         => /\ look_up_type_id(types, ret.trace[i].b) = TyErrorRecovery
                            /\ \E e \in Range(ret.errors) :
                                   /\ e.kind = "UnknownTypeName"
                                   /\ e.span = ret.arg.type_arguments[i].span

\* a struct whose second field has a type that does not resolve: all three fields are
\* returned, the second with the error-recovery type
C22_Witness ==
    /\ StructFieldsChecked
    /\ ret.arg.type_arguments = <<"ok", "warning_and_error", "ok">>
    /\ ret.some
    /\ ret.mapping = <<TypedStructField(1, "u64"), TypedStructField(2, "ErrorRecovery"), TypedStructField(3, "u64")>>


(***************************************************************************)
(* Failures of the declaration engine                                      *)
(***************************************************************************)
\* C23: insert_enum and the signature lookup return normally, with a DeclarationId or an
\* absent result, for every enum declaration, one whose name has a span without a source
\* file path included: no call of them ends the process.
C23_ReturnsNormally == ret.op \in {"insert_enum", "lookup_enum"} => ~panicked


(***************************************************************************)
(* Scopes of generics                                                      *)
(***************************************************************************)
\* the entries of the module's symbol table that stand for type parameters
GenericEntries(table) == {s \in table : s.kind = "GenericTypeForFunctionScope"}

\* C24: type-checking a generic struct or enum declaration, or an impl block, leaves no
\* entry for a type parameter in the enclosing namespace's symbol table; the only entry
\* a struct or enum declaration adds is its own name, and the only change an impl block
\* makes is to the implemented-traits table, for the type it implements for.
C24_ScopeDiscarded ==
    [][ret'.op = "generic_node_type_check"
       => /\ GenericEntries(symbols') = {}
          /\ ret'.arg.kind \in {"Struct", "Enum"}
                 => /\ modules' = modules
                    /\ symbols' \ symbols \subseteq {Symbol(Lib, ret'.arg.decl.name, ret'.arg.kind, "Public")}
                    /\ \A s \in symbols \ symbols' : s.name = ret'.arg.decl.name
          /\ ret'.arg.kind = "ImplSelf"
                 => /\ symbols' = symbols
                    /\ \A e \in modules'["lib"] \ modules["lib"] :
                           /\ e.ty = ImplementingType(ret'.arg.decl.name)
                           /\ e.trait = "r#Self"]_vars

\* the struct S<T> with a field of type T was checked without an error, and then an impl
\* block for it: T resolved in the child scopes, S has its methods, and the module's
\* symbol table holds S alone
C24_Witness ==
    /\ ret.op = "generic_node_type_check"
    /\ ret.arg.decl = GenericNode("ImplSelf", "S", <<"T">>, <<"f">>)
    /\ ret.some
    /\ ret.errors = <<>>
    /\ symbols = {Symbol(Lib, "S", "Struct", "Public")}
    /\ modules["lib"] = {TraitEntry(ImplementingType("S"), "r#Self", "f")}


OfQualifiedTrait(impl, as_trait) ==
    /\ ~ImplBlocks[impl].is_impl_self
    /\ ImplBlocks[impl].trait_name = as_trait.name
    /\ as_trait.has_type_arguments
           => ImplBlocks[impl].trait_type_arguments = as_trait.type_arguments

\* the methods of the name that pass the filter and come from the qualified trait, in
\* the namespace the call leaves
QualifiedMatching ==
    SelectSeq(Matching(implemented_traits),
              LAMBDA f : OfQualifiedTrait(Functions[f].implementing_type, ret.arg.as_trait))

\* C26: when the call has a trait qualifier, the method find_method_for_type returns
\* belongs to an implementation of the qualified trait, and when that trait supplies no
\* matching method the call fails with MethodNotFound for the type as the trait.
C26_QualifiedOnly ==
    (Resolved /\ ret.arg.as_trait.some)
    => (/\ ret.some => OfQualifiedTrait(Functions[ret.id].implementing_type, ret.arg.as_trait)
        /\ QualifiedMatching = <<>>
               => (/\ ~ret.some
                   /\ \E i \in 1 .. Len(ret.errors) :
                          /\ ret.errors[i].kind = "MethodNotFound"
                          /\ ret.errors[i].actually = <<ret.arg.type_id, ret.arg.as_trait.name>>))


(***************************************************************************)
(* The signature cache and the slab                                        *)
(***************************************************************************)
\* the id is the index of a slab entry that holds an enum declaration of the key's name
\* and type parameters
RefersToEnum(e) ==
    /\ e.id \in SlabIds
    /\ slab[e.id + 1].kind = "Enum"
    /\ slab[e.id + 1].decl.name = e.key.name
    /\ slab[e.id + 1].decl.type_parameters = e.key.type_parameters

\* C27: in every state the declaration engine reaches, each DeclarationId of the
\* signature cache refers to a slab entry that holds an enum declaration whose name and
\* type-parameter list are those of the cache key.
C27_CacheRefersToEnum == \A e \in decls : RefersToEnum(e)


(***************************************************************************)
(* Freshness of declaration ids                                            *)
(***************************************************************************)
InsertOps ==
    {"insert", "insert_function", "insert_trait", "insert_trait_fn", "insert_impl_trait",
     "insert_struct", "insert_storage", "insert_abi", "insert_constant", "insert_enum"}

\* the step is an insertion that is not a cache hit of insert_enum
Inserted == ret'.op \in InsertOps /\ ~(ret'.op = "insert_enum" /\ slab' = slab)

\* the declarations stored before the step are stored under the same ids after it
EarlierUnchanged == \A id \in SlabIds : id + 1 <= Len(slab') /\ slab'[id + 1] = slab[id + 1]

\* the claim as stated, for the earlier insertions the signature cache has on record: the
\* id an insertion returns is none of the ids insert_enum has returned and filed
C28_AsStated ==
    [][Inserted => (ret'.id \notin {e.id : e \in decls} /\ EarlierUnchanged)]_vars

\* C28: every insertion other than a cache hit of insert_enum returns a DeclarationId
\* that differs from every id returned by an insertion since the slab was last cleared,
\* stores the declaration under it and leaves the declaration stored under every one of
\* those ids unchanged.
C28_FreshIds ==
    [][Inserted
       => (/\ ret'.id \notin SlabIds
           /\ ret'.id + 1 <= Len(slab')
           /\ slab'[ret'.id + 1] = Wrapper(ret'.arg.kind, ret'.arg.decl)
           /\ EarlierUnchanged)]_vars

\* a constant was inserted after an enum: it has id 1 and the enum is still under id 0
C28_Witness ==
    /\ ret.op = "insert_constant"
    /\ ret.id = 1
    /\ Len(slab) = 2
    /\ slab[1].kind = "Enum"
    /\ slab[2].kind = "Constant"


(***************************************************************************)
(* Termination of the function lookup                                      *)
(***************************************************************************)
\* C29: look_up_function_id returns a declaration for every FunctionId after any
\* sequence of insert_function calls.
C29_Terminates == ret.op = "look_up_function_id" => ret.some


(***************************************************************************)
(* Equality of declaration wrappers                                        *)
(***************************************************************************)
\* C30: equality of declaration wrappers is reflexive and symmetric on every variant: a
\* wrapper compares equal to a clone of itself, the comparison gives the same answer in
\* both directions, and two wrappers of different variants never compare equal.
C30_Equivalence ==
    ret.op = "eq"
    => (/\ ret.mapping[1] = ret.mapping[2] => ret.some
        /\ ret.some = eq(ret.mapping[2], ret.mapping[1])
        /\ ret.mapping[1].kind # ret.mapping[2].kind => ~ret.some)

====
